---- MODULE Spec2Model ----
(***************************************************************************)
(* A model of the ECS runtime of game-engine-ts: the entity store          *)
(* (EntityManager), the event bus (EventDispatcher) it announces its       *)
(* changes on, and the engine (GameEngine) with its systems and its timer. *)
(*                                                                         *)
(* JavaScript runs one piece of code at a time.  The code that is running  *)
(* is either the host program or the innermost listener that an emit in    *)
(* progress has invoked, and whichever it is may call any public method.   *)
(* So every public method is an action that may fire in either context,    *)
(* and `stack` holds the emits in progress, innermost last, each with the  *)
(* position of its listener loop.  A listener is arbitrary code: what it   *)
(* does is the sequence of actions taken before the step that returns      *)
(* from it.                                                                *)
(***************************************************************************)
EXTENDS Integers, Sequences, FiniteSets, TLC

\* ------------------------------------------------------------------ bounds
MaxCap == 2        \* largest maxEntities a store is constructed with
MaxStoreCalls == 5 \* calls of public methods in one run of Spec
MaxBusCalls == 4   \* calls of public methods in one run of BusSpec
MaxHistCalls == 1002 \* calls of public methods in one run of HistSpec
MaxHistDepth == 2  \* emits in progress at once in a run of HistSpec
MaxEngineCalls == 4 \* calls of public methods and timer firings, EngineSpec
MaxTime == 2       \* latest reading of performance.now(), in milliseconds
MaxCollisionCalls == 2 \* calls of update and moves of an entity, CollisionSpec
MaxFlightCalls == 4 \* calls of public methods and timer firings, FlightSpec
MaxServerCalls == 4 \* messages handled in one run of ServerSpec
MaxStamp == 2      \* latest timestamp of an input message
MaxMovementCalls == 2 \* calls of MovementSystem.update in one run of MovementSpec
MaxLiveCalls == 4   \* calls of public methods and timer firings, LiveSpec

\* ------------------------------------------------------- program constants
DefaultMaxEntities == 10000
maxHistorySize == 1000
DefaultTargetFPS == 60

ComponentTypes == {"Transform", "Velocity"}
Payloads == {"p", "q"}
Components == [type : ComponentTypes, val : Payloads]
StoreEventTypes ==
  {"entity:created", "entity:destroyed", "component:added", "component:removed"}
CustomTypes == {"custom:a", "custom:b"}
EngineEventTypes ==
  {"system:added", "system:removed", "system:update:start",
   "system:update:end", "engine:started", "engine:stopped", "engine:paused",
   "engine:resumed", "engine:tick"}
EventTypes == StoreEventTypes \cup CustomTypes \cup EngineEventTypes
\* System objects, and the name each carries: two of them share one.
Systems == {"a1", "a2", "b"}
SystemName(s) == IF s = "b" THEN "render" ELSE "physics"
SystemNames == {"physics", "render", "audio"}
Fns == {"f", "g"}
\* The connections (ServerWebSocket objects) a server is given
Sockets == {1, 2}

VARIABLES
  entities,          \* EntityManager.entities: id -> (component type -> component)
  nextEntityId,      \* EntityManager.nextEntityId
  maxEntities,       \* EntityManager.maxEntities
  listeners,         \* EventDispatcher.listeners: type -> array
  oneTimeListeners,  \* EventDispatcher.oneTimeListeners: type -> array
  globalListeners,   \* EventDispatcher.globalListeners
  eventHistory,      \* EventDispatcher.eventHistory
  subscriptions,     \* the EventSubscription objects handed out, in order
  stack,             \* the emits in progress, innermost last
  last,              \* the call made by the latest step and its outcome
  createdIds,        \* ids handed out by createEntity, in call order
  cleared,           \* clear() has been called on the store
  destroyed,         \* ids that destroyEntity has removed
  fired,             \* one-time registrations that have been invoked
  unsubscribed,      \* handles whose unsubscribe() has returned
  removed,           \* registrations an unsubscribe() spliced out
  ncalls,            \* calls of public methods made so far in the run
  systems,           \* GameEngine.systems
  intervalId,        \* GameEngine.intervalId, 0 for undefined
  timers,            \* the intervals setInterval made and nothing cleared
  lastFrameTime,     \* GameEngine.lastFrameTime
  deltaTime,         \* GameEngine.deltaTime, in milliseconds
  isRunning,         \* GameEngine.isRunning
  isPaused,          \* GameEngine.isPaused
  clock,             \* the latest reading of performance.now()
  tick,              \* the call of GameEngine.tick in progress, or the last one
  world,             \* the entities handed to CollisionSystem.update, in Map order
  collisionEvents,   \* CollisionSystem.collisionEvents
  clients,           \* GameServer.clients: connection -> ClientData
  accepted           \* the input messages applied so far, per connection

storeVars == <<entities, nextEntityId, maxEntities>>
registry == <<listeners, oneTimeListeners, globalListeners>>
busVars == <<listeners, oneTimeListeners, globalListeners, eventHistory,
             subscriptions, stack>>
storeGhost == <<createdIds, cleared, destroyed>>
busGhost == <<fired, unsubscribed, removed>>
vars == <<entities, nextEntityId, maxEntities, listeners, oneTimeListeners,
          globalListeners, eventHistory, subscriptions, stack, last,
          createdIds, cleared, destroyed, fired, unsubscribed, removed,
          ncalls, systems, intervalId, timers, lastFrameTime, deltaTime,
          isRunning, isPaused, clock, tick, world, collisionEvents,
          clients, accepted>>
collisionVars == <<world, collisionEvents>>
serverVars == <<clients, accepted>>
engineVars == <<systems, intervalId, timers, lastFrameTime, deltaTime,
                isRunning, isPaused, clock, tick>>

\* ------------------------------------------------------------------ events
\* A GameEvent.  The timestamp (Date.now()) is left out: no code of the
\* store or the bus reads it.  One record shape serves every event type;
\* fields an event type does not carry hold 0 or "".
Event(t, id, ctype, val) ==
  [type |-> t, entityId |-> id, componentType |-> ctype, value |-> val]

EntityCreatedEvent(id) == Event("entity:created", id, "", 0)

EntityDestroyedEvent(id) == Event("entity:destroyed", id, "", 0)

ComponentAddedEvent(id, c) == Event("component:added", id, c.type, c.val)

ComponentRemovedEvent(id, ctype) == Event("component:removed", id, ctype, 0)

CustomEvent(t) == Event(t, 0, "", 0)

\* The events of the engine.  A system event carries its systemName in the
\* componentType field; engine:started carries targetFPS and the three
\* events of a tick carry deltaTime in the value field and entityCount in
\* the entityId field.
SystemAddedEvent(name) == Event("system:added", 0, name, 0)

SystemRemovedEvent(name) == Event("system:removed", 0, name, 0)

SystemUpdateStartEvent(name, dt, n) == Event("system:update:start", n, name, dt)

SystemUpdateEndEvent(name, dt, n) == Event("system:update:end", n, name, dt)

EngineStartedEvent == Event("engine:started", 0, "", DefaultTargetFPS)

EngineStoppedEvent == Event("engine:stopped", 0, "", 0)

EnginePausedEvent == Event("engine:paused", 0, "", 0)

EngineResumedEvent == Event("engine:resumed", 0, "", 0)

EngineTickEvent(dt, n) == Event("engine:tick", n, "", dt)

\* A CustomEvent that carries data
CustomEventWith(t, data) == Event(t, 0, "", data)

\* ------------------------------------------------------------- the arrays
\* A listener array holds functions.  Each element also carries `reg`, the
\* number of the on/once/onAll call that pushed it (its registration, which
\* is also the number of the subscription that call returned); the code has
\* no such field and nothing below that models code reads it, except to
\* name which registration an invocation or a removal is charged to.
Elem(f, r) == [fn |-> f, reg |-> r]

Regs(arr) == [k \in 1..Len(arr) |-> arr[k].reg]

FnsOf(arr) == [k \in 1..Len(arr) |-> arr[k].fn]

\* Array.prototype.indexOf on a listener array, 1-based; 0 is the code's -1.
IndexOf(arr, f) ==
  IF \E k \in 1..Len(arr) : arr[k].fn = f
  THEN CHOOSE k \in 1..Len(arr) :
         arr[k].fn = f /\ \A m \in 1..(k - 1) : arr[m].fn # f
  ELSE 0

\* listeners.splice(index, 1)
SpliceOut(arr, i) ==
  [k \in 1..(Len(arr) - 1) |-> IF k < i THEN arr[k] ELSE arr[k + 1]]

\* The element that the splice of an unsubscribe() by subscription h is
\* charged to.  The code removes the first element holding the function.  When
\* the element pushed by h's own registration stands later in an unbroken
\* run of that same function, removing either leaves the same array of
\* functions, and the removal is charged to h's own element.
Charged(arr, f, h) ==
  LET i == IndexOf(arr, f)
      own == {k \in 1..Len(arr) : arr[k].reg = h}
  IN  IF \E j \in own : \A k \in i..j : arr[k].fn = f
      THEN CHOOSE j \in own : TRUE
      ELSE i

\* The body of an unsubscribe closure: indexOf, then splice if found.
Unlist(arr, f, h) ==
  IF IndexOf(arr, f) = 0 THEN arr ELSE SpliceOut(arr, Charged(arr, f, h))

\* EventDispatcher.addToHistory
addToHistoryUnbounded(h, ev) == Append(h, ev)

addToHistory(h, ev) ==
  LET h2 == Append(h, ev)
  IN  IF Len(h2) > maxHistorySize
      THEN SubSeq(h2, Len(h2) - maxHistorySize + 1, Len(h2))
      ELSE h2

\* ---------------------------------------------------------------- emitting
\* A frame of `stack` is one emit in progress, stopped inside the listener it
\* has invoked: phase 1 is the loop over listeners.get(type), phase 2 the loop
\* over the one-time array taken out of the registry, phase 3 the loop over
\* globalListeners; idx is the array iterator's position (the element being
\* run); list is the local `oneTimeListeners` array of phase 2.
\* Bookkeeping: log = the registrations invoked so far, n0 = the number of
\* registrations made before emit was called, clean = no array of the
\* registry was changed since then by anything but this emit itself.
Frame(t, p, i, olist, log, n0, clean) ==
  [type |-> t, phase |-> p, idx |-> i, list |-> olist, log |-> log,
   n0 |-> n0, clean |-> clean]

\* The code of emit from just after a listener has returned (or from its
\* first loop) up to the next listener invocation: where the three for-of
\* loops stop next.  i is the next iterator position of phase p.  take = the
\* one-time array of the type is replaced by [] on the way.
Resume(t, p, i, olist) ==
  LET o == oneTimeListeners[t]
      j == IF p = 3 THEN i ELSE 1
      at(ph, k, l, tk) ==
        [done |-> FALSE, phase |-> ph, idx |-> k, list |-> l, take |-> tk]
  IN  IF p = 1 /\ i <= Len(listeners[t]) THEN at(1, i, <<>>, FALSE)
      ELSE IF p = 1 /\ Len(o) > 0 THEN at(2, 1, o, TRUE)
      ELSE IF p = 2 /\ i <= Len(olist) THEN at(2, i, olist, FALSE)
      ELSE IF j <= Len(globalListeners) THEN at(3, j, olist, FALSE)
      ELSE [done |-> TRUE, phase |-> 3, idx |-> j, list |-> olist,
            take |-> FALSE]

\* The element a loop stopped at r invokes.
InvokedBackwards(t, r) ==
  IF r.phase = 1 THEN listeners[t][Len(listeners[t]) + 1 - r.idx]
  ELSE IF r.phase = 2 THEN r.list[r.idx]
  ELSE globalListeners[r.idx]

Invoked(t, r) ==
  IF r.phase = 1 THEN listeners[t][r.idx]
  ELSE IF r.phase = 2 THEN r.list[r.idx]
  ELSE globalListeners[r.idx]

\* this.oneTimeListeners.set(event.type, [])
TakeOnceForgotten(t) == oneTimeListeners

TakeOnce(t) == [oneTimeListeners EXCEPT ![t] = <<>>]

Dirty(frames) == [k \in 1..Len(frames) |-> [frames[k] EXCEPT !.clean = FALSE]]

\* emit runs on from (p, i) in the frame above `base`: it invokes the next
\* listener and stops inside it, or returns to its caller.
Dispatch(base, t, p, i, olist, log, n0, clean) ==
  LET r == Resume(t, p, i, olist)
  IN  /\ oneTimeListeners' =
           IF r.take THEN TakeOnce(t) ELSE oneTimeListeners
      /\ IF r.done
         THEN /\ stack' = base
              /\ fired' = fired
         ELSE LET e == Invoked(t, r)
              IN  /\ stack' = Append(IF r.take THEN Dirty(base) ELSE base,
                                     Frame(t, r.phase, r.idx, r.list,
                                           Append(log, e.reg), n0, clean))
                  /\ fired' = IF r.phase = 2 THEN fired \cup {e.reg} ELSE fired
      /\ UNCHANGED <<listeners, globalListeners, subscriptions, unsubscribed,
                     removed>>

\* EventDispatcher.emit, as called by the running code: the event is put in
\* the history and the listener loops start.
EmitCall(ev) ==
  /\ eventHistory' = addToHistory(eventHistory, ev)
  /\ Dispatch(stack, ev.type, 1, 1, <<>>, <<>>, Len(subscriptions), TRUE)

\* The record of a call: the method, the id it was given (or returned, or
\* the number of the subscription), the component or type it was given,
\* and the error it threw ("" when it returned normally).
Call(op, id, arg, err) == [op |-> op, id |-> id, arg |-> arg, err |-> err]

NoArg == [type |-> "", val |-> ""]

TypeArg(t) == [type |-> t, val |-> ""]

\* ------------------------------------------------------------ bus actions
\* What a registration adds besides the array element: a subscription, and
\* every emit in progress has seen the registry change.
Registered(kind, t, f) ==
  /\ subscriptions' = Append(subscriptions, [kind |-> kind, type |-> t, fn |-> f])
  /\ stack' = Dirty(stack)
  /\ last' = Call(kind, Len(subscriptions) + 1, TypeArg(t), "")
  /\ UNCHANGED <<eventHistory, fired, unsubscribed, removed>>

OnUnshift(t, f) ==
  /\ Registered("on", t, f)
  /\ listeners' =
       [listeners EXCEPT ![t] = <<Elem(f, Len(subscriptions) + 1)>> \o @]
  /\ UNCHANGED <<oneTimeListeners, globalListeners>>
  /\ UNCHANGED <<storeVars, storeGhost>>

\* EventDispatcher.on
On(t, f) ==
  /\ Registered("on", t, f)
  /\ listeners' =
       [listeners EXCEPT ![t] = Append(@, Elem(f, Len(subscriptions) + 1))]
  /\ UNCHANGED <<oneTimeListeners, globalListeners>>
  /\ UNCHANGED <<storeVars, storeGhost>>

\* EventDispatcher.once
Once(t, f) ==
  /\ Registered("once", t, f)
  /\ oneTimeListeners' =
       [oneTimeListeners EXCEPT ![t] = Append(@, Elem(f, Len(subscriptions) + 1))]
  /\ UNCHANGED <<listeners, globalListeners>>
  /\ UNCHANGED <<storeVars, storeGhost>>

\* EventDispatcher.onAll
OnAll(f) ==
  /\ Registered("onAll", "", f)
  /\ globalListeners' = Append(globalListeners, Elem(f, Len(subscriptions) + 1))
  /\ UNCHANGED <<listeners, oneTimeListeners>>
  /\ UNCHANGED <<storeVars, storeGhost>>

\* The array an unsubscribe closure of subscription s looks its listener up in.
ArrayOf(s) ==
  IF s.kind = "on" THEN listeners[s.type]
  ELSE IF s.kind = "once" THEN oneTimeListeners[s.type]
  ELSE globalListeners

\* subscription.unsubscribe(), for the h-th subscription handed out.
Unsubscribe(h) ==
  /\ h \in 1..Len(subscriptions)
  /\ LET s == subscriptions[h]
         arr == ArrayOf(s)
         new == Unlist(arr, s.fn, h)
     IN  /\ listeners' =
              IF s.kind = "on" THEN [listeners EXCEPT ![s.type] = new]
              ELSE listeners
         /\ oneTimeListeners' =
              IF s.kind = "once" THEN [oneTimeListeners EXCEPT ![s.type] = new]
              ELSE oneTimeListeners
         /\ globalListeners' = IF s.kind = "onAll" THEN new ELSE globalListeners
         /\ removed' = removed \cup
              {arr[k].reg : k \in {k \in 1..Len(arr) : arr[k] \notin
                                     {new[m] : m \in 1..Len(new)}}}
         /\ stack' = IF new = arr THEN stack ELSE Dirty(stack)
  /\ unsubscribed' = unsubscribed \cup {h}
  /\ last' = Call("unsubscribe", h, NoArg, "")
  /\ UNCHANGED <<eventHistory, subscriptions, fired>>
  /\ UNCHANGED <<storeVars, storeGhost>>

\* emit of an event of the host program's own (a CustomEvent).
Emit(t) ==
  /\ EmitCall(CustomEvent(t))
  /\ last' = Call("emit", 0, TypeArg(t), "")
  /\ UNCHANGED <<storeVars, storeGhost>>

\* emit of a CustomEvent with data
EmitData(t, data) ==
  /\ EmitCall(CustomEventWith(t, data))
  /\ last' = Call("emit", data, TypeArg(t), "")
  /\ UNCHANGED <<storeVars, storeGhost>>

\* The running listener returns (or throws: emit catches, logs and goes on),
\* and the emit that invoked it runs on.
Return ==
  /\ stack # <<>>
  /\ LET top == stack[Len(stack)]
     IN  Dispatch(SubSeq(stack, 1, Len(stack) - 1), top.type, top.phase,
                  top.idx + 1, top.list, top.log, top.n0, top.clean)
  /\ last' = Call("return", 0, NoArg, "")
  /\ UNCHANGED eventHistory
  /\ UNCHANGED <<storeVars, storeGhost>>

\* The try/catch around listener(event) in each of emit's three loops.
CatchesNothing == FALSE

Catches == TRUE

\* The running listener throws.  The catch of the loop that invoked it logs
\* the error and the loop goes on; an exception nothing caught would unwind
\* every emit in progress.
Throw ==
  /\ stack # <<>>
  /\ IF Catches
     THEN /\ LET top == stack[Len(stack)]
             IN  Dispatch(SubSeq(stack, 1, Len(stack) - 1), top.type,
                          top.phase, top.idx + 1, top.list, top.log, top.n0,
                          top.clean)
          /\ last' = Call("throw", 0, NoArg, "")
     ELSE /\ stack' = <<>>
          /\ last' = Call("throw", 0, NoArg, "Uncaught")
          /\ UNCHANGED <<registry, subscriptions, busGhost>>
  /\ UNCHANGED eventHistory
  /\ UNCHANGED <<storeVars, storeGhost>>

\* ---------------------------------------------------------- store actions
\* Map.prototype.set and Map.prototype.delete, for this.entities and for an
\* entity's components
MapSetIfAbsent(m, k, v) ==
  IF k \in DOMAIN m THEN m
  ELSE [x \in DOMAIN m \cup {k} |-> IF x = k THEN v ELSE m[x]]

MapSet(m, k, v) == [x \in DOMAIN m \cup {k} |-> IF x = k THEN v ELSE m[x]]

MapDeleteNothing(m, k) == m

MapDelete(m, k) == [x \in DOMAIN m \ {k} |-> m[x]]

Live == DOMAIN entities

\* createEntity's capacity test: this.entities.size >= this.maxEntities
AtCapacityOffByOne == Cardinality(Live) > maxEntities

AtCapacity == Cardinality(Live) >= maxEntities

\* The id createEntity gives the new entity: this.nextEntityId (++ follows)
NewIdReused == Cardinality(Live) + 1

NewId == nextEntityId

\* EntityManager.createEntity
CreateEntity ==
  IF AtCapacity
  THEN /\ last' = Call("createEntity", 0, NoArg, "CapacityExceeded")
       /\ UNCHANGED <<storeVars, storeGhost, busVars, busGhost>>
  ELSE /\ entities' = MapSet(entities, NewId, << >>)
       /\ nextEntityId' = nextEntityId + 1
       /\ createdIds' = Append(createdIds, NewId)
       /\ EmitCall(EntityCreatedEvent(NewId))
       /\ last' = Call("createEntity", NewId, NoArg, "")
       /\ UNCHANGED <<maxEntities, cleared, destroyed>>

\* EntityManager.destroyEntity
DestroyEntity(id) ==
  IF id \in Live
  THEN /\ entities' = MapDelete(entities, id)
       /\ destroyed' = destroyed \cup {id}
       /\ EmitCall(EntityDestroyedEvent(id))
       /\ last' = Call("destroyEntity", id, NoArg, "")
       /\ UNCHANGED <<nextEntityId, maxEntities, createdIds, cleared>>
  ELSE /\ last' = Call("destroyEntity", id, NoArg, "")
       /\ UNCHANGED <<storeVars, storeGhost, busVars, busGhost>>

\* addComponent that creates the entity it does not find
AddComponentUpsert(id, c) ==
  /\ entities' = MapSet(entities, id,
                        MapSet(IF id \in Live THEN entities[id] ELSE << >>,
                               c.type, c))
  /\ EmitCall(ComponentAddedEvent(id, c))
  /\ last' = Call("addComponent", id, c, "")
  /\ UNCHANGED <<nextEntityId, maxEntities, storeGhost>>

\* EntityManager.addComponent
AddComponent(id, c) ==
  IF id \notin Live
  THEN /\ last' = Call("addComponent", id, c, "EntityNotFound")
       /\ UNCHANGED <<storeVars, storeGhost, busVars, busGhost>>
  ELSE /\ entities' = [entities EXCEPT ![id] = MapSet(@, c.type, c)]
       /\ EmitCall(ComponentAddedEvent(id, c))
       /\ last' = Call("addComponent", id, c, "")
       /\ UNCHANGED <<nextEntityId, maxEntities, storeGhost>>

\* removeComponent's hadComponent: entity.components.has(componentType)
hadComponentAlways(id, ctype) == TRUE

hadComponent(id, ctype) == ctype \in DOMAIN entities[id]

\* EntityManager.removeComponent
RemoveComponent(id, ctype) ==
  IF id \notin Live
  THEN /\ last' = Call("removeComponent", id, TypeArg(ctype), "EntityNotFound")
       /\ UNCHANGED <<storeVars, storeGhost, busVars, busGhost>>
  ELSE /\ entities' = [entities EXCEPT ![id] = MapDelete(@, ctype)]
       /\ IF hadComponent(id, ctype)
          THEN EmitCall(ComponentRemovedEvent(id, ctype))
          ELSE UNCHANGED <<busVars, busGhost>>
       /\ last' = Call("removeComponent", id, TypeArg(ctype), "")
       /\ UNCHANGED <<nextEntityId, maxEntities, storeGhost>>

\* EntityManager.clear
Clear ==
  /\ entities' = << >>
  /\ nextEntityId' = 1
  /\ cleared' = TRUE
  /\ last' = Call("clear", 0, NoArg, "")
  /\ UNCHANGED <<maxEntities, createdIds, destroyed, busVars, busGhost>>

\* EntityManager.getEntity / getComponent / hasComponent
getEntity(id) == IF id \in Live THEN entities[id] ELSE "undefined"

hasComponent(id, ctype) == id \in Live /\ ctype \in DOMAIN entities[id]

getComponent(id, ctype) ==
  IF hasComponent(id, ctype) THEN entities[id][ctype] ELSE "undefined"

\* --------------------------------------------------------- engine actions
\* The call of tick in progress.  stage is where it stands: "start" = the
\* system:update:start event of arr[idx] is being dispatched or has been,
\* "update" = inside arr[idx].update, "end" = its system:update:end event,
\* "tick" = the engine:tick event, "idle" = no tick is running.  arr is the
\* array object the for-of loop iterates and shared = this.systems is still
\* that object (addSystem pushes onto this.systems, removeSystem replaces
\* it by a new array).  Bookkeeping: n0 = the length of arr when the tick
\* began, log = what the tick has done so far, threw = an update threw out
\* of it.  A finished tick stays, as "idle", until the next one begins.
\* map is the tick's local entityMap, as the set of its keys: the entities
\* themselves are shared with the store.
TickAt(stage, arr, shared, idx, n0, log, threw, map) ==
  [stage |-> stage, arr |-> arr, shared |-> shared, idx |-> idx, n0 |-> n0,
   log |-> log, threw |-> threw, entityMap |-> map]

NoTick == TickAt("idle", <<>>, FALSE, 0, 0, <<>>, FALSE, {})

\* The map that tick fills from getAllEntities() before its loop (taken
\* anew whenever it is read)
entityMapLive == DOMAIN entities

\* The map that tick fills from getAllEntities() before its loop, and reads
\* from then on
entityMap == tick.entityMap

Did(what, s) == [what |-> what, sys |-> s]

InTick == tick.stage # "idle"

\* Code that can call a public method is running: the host program (no
\* tick), a system's update, or a listener.
CanCall == stack # <<>> \/ tick.stage \in {"idle", "update"}

\* performance.now(): a reading no earlier than the last one
Now(t) == t \in clock..MaxTime /\ clock' = t

\* this.systems.push(system), as the loop of a tick in progress sees it: the
\* array it iterates grows, unless the iterator is already exhausted (the
\* tick is at its engine:tick event) or this.systems is another array now.
Pushed(s) ==
  IF InTick /\ tick.shared /\ tick.stage # "tick"
  THEN [tick EXCEPT !.arr = Append(@, s)]
  ELSE tick

\* GameEngine.addSystem
AddSystem(s) ==
  /\ systems' = Append(systems, s)
  /\ tick' = Pushed(s)
  /\ EmitCall(SystemAddedEvent(SystemName(s)))
  /\ last' = Call("addSystem", 0, TypeArg(s), "")
  /\ UNCHANGED <<intervalId, timers, lastFrameTime, deltaTime, isRunning,
                 isPaused, clock>>
  /\ UNCHANGED <<storeVars, storeGhost>>

\* this.systems.filter((system) => system.name !== name)
FilterFirst(arr, name) ==
  IF \E k \in 1..Len(arr) : SystemName(arr[k]) = name
  THEN LET i == CHOOSE k \in 1..Len(arr) :
                  /\ SystemName(arr[k]) = name
                  /\ \A m \in 1..(k - 1) : SystemName(arr[m]) # name
       IN  [k \in 1..(Len(arr) - 1) |-> IF k < i THEN arr[k] ELSE arr[k + 1]]
  ELSE arr

Filter(arr, name) == SelectSeq(arr, LAMBDA x : SystemName(x) # name)

\* GameEngine.removeSystem, were it to remove from the array in place
RemoveSystemInPlace(name) ==
  /\ systems' = Filter(systems, name)
  /\ tick' = IF InTick /\ tick.shared
             THEN [tick EXCEPT !.arr = Filter(@, name)]
             ELSE tick
  /\ IF Len(systems') < Len(systems)
     THEN EmitCall(SystemRemovedEvent(name))
     ELSE UNCHANGED <<busVars, busGhost>>
  /\ last' = Call("removeSystem", 0, TypeArg(name), "")
  /\ UNCHANGED <<intervalId, timers, lastFrameTime, deltaTime, isRunning,
                 isPaused, clock>>
  /\ UNCHANGED <<storeVars, storeGhost>>

\* GameEngine.removeSystem
RemoveSystem(name) ==
  /\ systems' = Filter(systems, name)
  /\ tick' = IF InTick THEN [tick EXCEPT !.shared = FALSE] ELSE tick
  /\ IF Len(systems') < Len(systems)
     THEN EmitCall(SystemRemovedEvent(name))
     ELSE UNCHANGED <<busVars, busGhost>>
  /\ last' = Call("removeSystem", 0, TypeArg(name), "")
  /\ UNCHANGED <<intervalId, timers, lastFrameTime, deltaTime, isRunning,
                 isPaused, clock>>
  /\ UNCHANGED <<storeVars, storeGhost>>

\* The Timer that setInterval returns: one that no live interval has.
NewTimer == CHOOSE i \in 1..(Cardinality(timers) + 1) : i \notin timers

\* clearInterval(this.intervalId) in stop
ClearedNothing == timers

Cleared == timers \ {intervalId}

\* GameEngine.start
Start ==
  /\ IF isRunning
     THEN UNCHANGED <<engineVars, busVars, busGhost>>
     ELSE /\ isRunning' = TRUE
          /\ isPaused' = FALSE
          /\ \E t \in 0..MaxTime : Now(t) /\ lastFrameTime' = t
          /\ intervalId' = NewTimer
          /\ timers' = timers \cup {NewTimer}
          /\ EmitCall(EngineStartedEvent)
          /\ UNCHANGED <<systems, deltaTime, tick>>
  /\ last' = Call("start", 0, NoArg, "")
  /\ UNCHANGED <<storeVars, storeGhost>>

\* GameEngine.stop
Stop ==
  /\ IF ~isRunning
     THEN UNCHANGED <<engineVars, busVars, busGhost>>
     ELSE /\ isRunning' = FALSE
          /\ isPaused' = FALSE
          /\ IF intervalId # 0
             THEN timers' = Cleared /\ intervalId' = 0
             ELSE UNCHANGED <<timers, intervalId>>
          /\ EmitCall(EngineStoppedEvent)
          /\ UNCHANGED <<systems, lastFrameTime, deltaTime, clock, tick>>
  /\ last' = Call("stop", 0, NoArg, "")
  /\ UNCHANGED <<storeVars, storeGhost>>

\* The test that opens pause: !this.isRunning || this.isPaused
PauseRefusedNever == FALSE

PauseRefused == ~isRunning \/ isPaused

\* GameEngine.pause
Pause ==
  /\ IF PauseRefused
     THEN UNCHANGED <<engineVars, busVars, busGhost>>
     ELSE /\ isPaused' = TRUE
          /\ EmitCall(EnginePausedEvent)
          /\ UNCHANGED <<systems, intervalId, timers, lastFrameTime,
                         deltaTime, isRunning, clock, tick>>
  /\ last' = Call("pause", 0, NoArg, "")
  /\ UNCHANGED <<storeVars, storeGhost>>

\* GameEngine.resume
ResumeEngine ==
  /\ IF ~isRunning \/ ~isPaused
     THEN UNCHANGED <<engineVars, busVars, busGhost>>
     ELSE /\ isPaused' = FALSE
          /\ \E t \in 0..MaxTime : Now(t) /\ lastFrameTime' = t
          /\ EmitCall(EngineResumedEvent)
          /\ UNCHANGED <<systems, intervalId, timers, deltaTime, isRunning,
                         tick>>
  /\ last' = Call("resume", 0, NoArg, "")
  /\ UNCHANGED <<storeVars, storeGhost>>

\* The loop of tick arrives at position i of array arr (mirrored)
LoopAtReversed(arr, shared, i, n0, log, dt, map) ==
  IF i <= Len(arr)
  THEN /\ EmitCall(SystemUpdateStartEvent(SystemName(arr[Len(arr) + 1 - i]), dt,
                                          Cardinality(map)))
       /\ tick' = TickAt("start", arr, shared, i, n0,
                         Append(log, Did("start", arr[Len(arr) + 1 - i])), FALSE, map)
  ELSE /\ EmitCall(EngineTickEvent(dt, Cardinality(map)))
       /\ tick' = TickAt("tick", arr, shared, i, n0,
                         Append(log, Did("tick", "")), FALSE, map)

\* The loop of tick arrives at position i of array arr: it emits the
\* system:update:start event of the system there, or, past the end, the
\* engine:tick event.
LoopAt(arr, shared, i, n0, log, dt, map) ==
  IF i <= Len(arr)
  THEN /\ EmitCall(SystemUpdateStartEvent(SystemName(arr[i]), dt,
                                          Cardinality(map)))
       /\ tick' = TickAt("start", arr, shared, i, n0,
                         Append(log, Did("start", arr[i])), FALSE, map)
  ELSE /\ EmitCall(EngineTickEvent(dt, Cardinality(map)))
       /\ tick' = TickAt("tick", arr, shared, i, n0,
                         Append(log, Did("tick", "")), FALSE, map)

\* The test that opens tick: this.isPaused
SkippedNever == FALSE

SkippedAlways == TRUE

Skipped == isPaused

\* A live interval fires and calls tick.  A timer callback runs only when no
\* other code does.
TimerFires ==
  /\ timers # {}
  /\ stack = <<>>
  /\ ~InTick
  /\ IF Skipped
     THEN UNCHANGED <<engineVars, busVars, busGhost>>
     ELSE /\ \E t \in 0..MaxTime :
               /\ Now(t)
               /\ deltaTime' = t - lastFrameTime
               /\ lastFrameTime' = t
               /\ LoopAt(systems, TRUE, 1, Len(systems), <<>>,
                         t - lastFrameTime, Live)
          /\ UNCHANGED <<systems, intervalId, timers, isRunning, isPaused>>
  /\ last' = Call("tick", 0, NoArg, "")
  /\ UNCHANGED <<storeVars, storeGhost>>

\* tick calls system.update(this.deltaTime, entityMap)
CallUpdate ==
  /\ tick.stage = "start"
  /\ stack = <<>>
  /\ tick' = [tick EXCEPT !.stage = "update",
                          !.log = Append(@, Did("update", tick.arr[tick.idx]))]
  /\ last' = Call("update", 0, TypeArg(tick.arr[tick.idx]), "")
  /\ UNCHANGED <<systems, intervalId, timers, lastFrameTime, deltaTime,
                 isRunning, isPaused, clock>>
  /\ UNCHANGED <<busVars, busGhost, storeVars, storeGhost>>

\* update returns, and tick emits the system:update:end event
UpdateReturns ==
  /\ tick.stage = "update"
  /\ stack = <<>>
  /\ EmitCall(SystemUpdateEndEvent(SystemName(tick.arr[tick.idx]), deltaTime,
                                   Cardinality(entityMap)))
  /\ tick' = [tick EXCEPT !.stage = "end",
                          !.log = Append(@, Did("end", tick.arr[tick.idx]))]
  /\ last' = Call("updated", 0, TypeArg(tick.arr[tick.idx]), "")
  /\ UNCHANGED <<systems, intervalId, timers, lastFrameTime, deltaTime,
                 isRunning, isPaused, clock>>
  /\ UNCHANGED <<storeVars, storeGhost>>

\* A try/catch around system.update in tick: there is none
TickCatchesAll == TRUE

TickCatches == FALSE

\* update throws
UpdateThrows ==
  /\ tick.stage = "update"
  /\ stack = <<>>
  /\ IF TickCatches
     THEN /\ EmitCall(SystemUpdateEndEvent(SystemName(tick.arr[tick.idx]),
                                           deltaTime, Cardinality(entityMap)))
          /\ tick' = [tick EXCEPT !.stage = "end",
                        !.log = Append(@, Did("end", tick.arr[tick.idx]))]
          /\ last' = Call("updateThrows", 0, TypeArg(tick.arr[tick.idx]), "")
     ELSE /\ tick' = [tick EXCEPT !.stage = "idle", !.threw = TRUE]
          /\ last' = Call("updateThrows", 0, TypeArg(tick.arr[tick.idx]),
                          "UpdateThrew")
          /\ UNCHANGED <<busVars, busGhost>>
  /\ UNCHANGED <<systems, intervalId, timers, lastFrameTime, deltaTime,
                 isRunning, isPaused, clock>>
  /\ UNCHANGED <<storeVars, storeGhost>>

\* The for-of loop of tick goes to its next element
Advance ==
  /\ tick.stage = "end"
  /\ stack = <<>>
  /\ LoopAt(tick.arr, tick.shared, tick.idx + 1, tick.n0, tick.log, deltaTime,
            entityMap)
  /\ last' = Call("next", 0, NoArg, "")
  /\ UNCHANGED <<systems, intervalId, timers, lastFrameTime, deltaTime,
                 isRunning, isPaused, clock>>
  /\ UNCHANGED <<storeVars, storeGhost>>

\* tick returns
TickReturns ==
  /\ tick.stage = "tick"
  /\ stack = <<>>
  /\ tick' = [tick EXCEPT !.stage = "idle"]
  /\ last' = Call("ticked", 0, NoArg, "")
  /\ UNCHANGED <<systems, intervalId, timers, lastFrameTime, deltaTime,
                 isRunning, isPaused, clock>>
  /\ UNCHANGED <<busVars, busGhost, storeVars, storeGhost>>

\* ------------------------------------------------------------------ numbers
\* The numbers of the collision code are JavaScript doubles.  The model
\* computes with the exact fraction <<n, d>> in lowest terms, d > 0: every
\* sum, product and quotient below is the one the code writes, without the
\* rounding of a double.  Masses are positive, so no quotient divides by 0.
Abs(n) == IF n < 0 THEN -n ELSE n

RECURSIVE GCD(_, _)
GCD(a, b) == IF b = 0 THEN a ELSE GCD(b, a % b)

Frac(n, d) ==
  LET s == IF d < 0 THEN -1 ELSE 1
      g == GCD(Abs(n), Abs(d))
  IN <<(s * n) \div g, (s * d) \div g>>

Q(n) == <<n, 1>>
Plus(a, b) == Frac(a[1] * b[2] + b[1] * a[2], a[2] * b[2])
Minus(a, b) == Frac(a[1] * b[2] - b[1] * a[2], a[2] * b[2])
Times(a, b) == Frac(a[1] * b[1], a[2] * b[2])
Over(a, b) == Frac(a[1] * b[2], a[2] * b[1])
Neg(a) == <<-a[1], a[2]>>
Less(a, b) == a[1] * b[2] < b[1] * a[2]
MathMin(a, b) == IF Less(b, a) THEN b ELSE a
MathMax(a, b) == IF Less(a, b) THEN b ELSE a
Vector2(x, y) == [x |-> x, y |-> y]
Zero2 == Vector2(Q(0), Q(0))

\* ------------------------------------------------------------------- layers
CollisionLayers ==
  [DEFAULT |-> 0, PLAYER |-> 1, ENEMY |-> 2, PROJECTILE |-> 3, WALL |-> 4,
   PICKUP |-> 5, TRIGGER |-> 6]

Layers == 0..6

CollisionMatrixOneWay ==
  [l \in Layers |->
     CASE l = 0 -> <<0, 1, 2, 4>>
       [] l = 1 -> <<0, 2, 4, 5, 6>>
       [] l = 2 -> <<0, 1, 4, 3>>
       [] l = 3 -> <<2, 4>>
       [] l = 4 -> <<0, 1, 2>>
       [] l = 5 -> <<1>>
       [] l = 6 -> <<1>>]

CollisionMatrix ==
  [l \in Layers |->
     CASE l = 0 -> <<0, 1, 2, 4>>
       [] l = 1 -> <<0, 2, 4, 5, 6>>
       [] l = 2 -> <<0, 1, 4, 3>>
       [] l = 3 -> <<2, 4>>
       [] l = 4 -> <<0, 1, 2, 3>>
       [] l = 5 -> <<1>>
       [] l = 6 -> <<1>>]

\* CollisionMatrix[layerA]?.includes(layerB) ?? false: only layerA's list is
\* looked at, and a layer without a list collides with nothing.
canLayersCollide(layerA, layerB) ==
  IF layerA \in DOMAIN CollisionMatrix
  THEN \E k \in 1..Len(CollisionMatrix[layerA]) :
         CollisionMatrix[layerA][k] = layerB
  ELSE FALSE

\* ----------------------------------------------------------------- geometry
BoundingBox(x, y, width, height) ==
  [x |-> x, y |-> y, width |-> width, height |-> height]

checkAABBCollisionTouching(boxA, boxB) ==
  /\ ~Less(Plus(boxB.x, boxB.width), boxA.x)
  /\ ~Less(Plus(boxA.x, boxA.width), boxB.x)
  /\ ~Less(Plus(boxB.y, boxB.height), boxA.y)
  /\ ~Less(Plus(boxA.y, boxA.height), boxB.y)

checkAABBCollision(boxA, boxB) ==
  /\ Less(boxA.x, Plus(boxB.x, boxB.width))
  /\ Less(boxB.x, Plus(boxA.x, boxA.width))
  /\ Less(boxA.y, Plus(boxB.y, boxB.height))
  /\ Less(boxB.y, Plus(boxA.y, boxA.height))

\* The extent of the intersection of the two boxes on each axis.
OverlapX(boxA, boxB) ==
  Minus(MathMin(Plus(boxA.x, boxA.width), Plus(boxB.x, boxB.width)),
        MathMax(boxA.x, boxB.x))

OverlapY(boxA, boxB) ==
  Minus(MathMin(Plus(boxA.y, boxA.height), Plus(boxB.y, boxB.height)),
        MathMax(boxA.y, boxB.y))

\* if (overlapX < overlapY): the boxes are separated on the X axis.
SeparateOnXOrTie(overlapX, overlapY) == ~Less(overlapY, overlapX)

SeparateOnX(overlapX, overlapY) == Less(overlapX, overlapY)

\* getCollisionInfo's null: `hit` tells a Collision from it.
NoCollision ==
  [hit |-> FALSE, entityA |-> 0, entityB |-> 0, normal |-> Zero2,
   penetration |-> Q(0), contactPoint |-> Zero2]

\* The timestamp (Date.now()) is left out: nothing reads it.
getCollisionInfo(entityAId, entityBId, boxA, boxB) ==
  IF ~checkAABBCollision(boxA, boxB)
  THEN NoCollision
  ELSE LET overlapX == OverlapX(boxA, boxB)
           overlapY == OverlapY(boxA, boxB)
           onX == SeparateOnX(overlapX, overlapY)
       IN [hit |-> TRUE,
           entityA |-> entityAId,
           entityB |-> entityBId,
           normal |->
             IF onX
             THEN (IF Less(boxA.x, boxB.x) THEN Vector2(Q(-1), Q(0))
                                           ELSE Vector2(Q(1), Q(0)))
             ELSE (IF Less(boxA.y, boxB.y) THEN Vector2(Q(0), Q(-1))
                                           ELSE Vector2(Q(0), Q(1))),
           penetration |-> IF onX THEN overlapX ELSE overlapY,
           contactPoint |->
             Vector2(Plus(MathMax(boxA.x, boxB.x), Over(overlapX, Q(2))),
                     Plus(MathMax(boxA.y, boxB.y), Over(overlapY, Q(2))))]

updateBoundingBoxStale(boundingBox, position, size) == boundingBox

\* CollisionSystem always passes a size, so the width and the height are
\* assigned first.
updateBoundingBox(boundingBox, position, size) ==
  BoundingBox(Minus(position.x, Over(size.x, Q(2))),
              Minus(position.y, Over(size.y, Q(2))),
              size.x, size.y)

\* --------------------------------------------------------------- resolution
SeparatingNever(velocityAlongNormal) == FALSE

\* if (velocityAlongNormal > 0)
Separating(velocityAlongNormal) == Less(Q(0), velocityAlongNormal)

RestitutionOfA(restitutionA, restitutionB) == restitutionA

Restitution(restitutionA, restitutionB) == MathMin(restitutionA, restitutionB)

resolveCollision(collision, massA, massB, restitutionA, restitutionB, velocityA, velocityB, isStaticA, isStaticB) ==
  LET normal == collision.normal
      penetration == collision.penetration
      relativeVelocity == Vector2(Minus(velocityA.x, velocityB.x),
                                  Minus(velocityA.y, velocityB.y))
      velocityAlongNormal == Plus(Times(relativeVelocity.x, normal.x),
                                  Times(relativeVelocity.y, normal.y))
      restitution == Restitution(restitutionA, restitutionB)
      invA == Over(Q(1), massA)
      invB == Over(Q(1), massB)
      impulse0 == Times(Neg(Plus(Q(1), restitution)), velocityAlongNormal)
      impulseScalar ==
        IF ~isStaticA /\ ~isStaticB THEN Over(impulse0, Plus(invA, invB))
        ELSE IF isStaticA /\ ~isStaticB THEN Over(impulse0, invB)
        ELSE IF ~isStaticA /\ isStaticB THEN Over(impulse0, invA)
        ELSE Q(0)
      impulse == Vector2(Times(impulseScalar, normal.x),
                         Times(impulseScalar, normal.y))
      separationAmount ==
        Over(penetration,
             IF isStaticA /\ isStaticB
             THEN Q(1)
             ELSE Plus(IF isStaticA THEN Q(1) ELSE invA,
                       IF isStaticB THEN Q(1) ELSE invB))
      separationRatioA ==
        IF isStaticB THEN Q(1) ELSE Over(invA, Plus(invA, invB))
      separationRatioB ==
        IF isStaticA THEN Q(1) ELSE Over(invB, Plus(invA, invB))
  IN IF Separating(velocityAlongNormal)
     THEN [newVelocityA |-> velocityA, newVelocityB |-> velocityB,
           separationA |-> Zero2, separationB |-> Zero2]
     ELSE [newVelocityA |->
             IF ~isStaticA
             THEN Vector2(Plus(velocityA.x, Over(impulse.x, massA)),
                          Plus(velocityA.y, Over(impulse.y, massA)))
             ELSE velocityA,
           newVelocityB |->
             IF ~isStaticB
             THEN Vector2(Minus(velocityB.x, Over(impulse.x, massB)),
                          Minus(velocityB.y, Over(impulse.y, massB)))
             ELSE velocityB,
           separationA |->
             IF ~isStaticA
             THEN Vector2(
                    Times(Times(normal.x, separationAmount), separationRatioA),
                    Times(Times(normal.y, separationAmount), separationRatioA))
             ELSE Zero2,
           separationB |->
             IF ~isStaticB
             THEN Vector2(
                    Times(Times(Neg(normal.x), separationAmount),
                          separationRatioB),
                    Times(Times(Neg(normal.y), separationAmount),
                          separationRatioB))
             ELSE Zero2]

\* ---------------------------------------------------------- CollisionSystem
\* An entity as CollisionSystem reads it: its id and its Transform, Velocity
\* and Collider components.  A has... flag tells whether the entity carries
\* the component; the fields of a component it lacks are never read.
createCollider(width, height, layer, isTrigger, isStatic, mass, restitution) ==
  [boundingBox |-> BoundingBox(Q(0), Q(0), width, height), layer |-> layer,
   isTrigger |-> isTrigger, isStatic |-> isStatic, mass |-> mass,
   restitution |-> restitution]

Entity(id, hasTransform, position, hasVelocity, velocity, hasCollider, c) ==
  [id |-> id, hasTransform |-> hasTransform, position |-> position,
   hasVelocity |-> hasVelocity, velocity |-> velocity,
   hasCollider |-> hasCollider, boundingBox |-> c.boundingBox,
   layer |-> c.layer, isTrigger |-> c.isTrigger, isStatic |-> c.isStatic,
   mass |-> c.mass, restitution |-> c.restitution]

\* entity.components.has('Collider') && entity.components.has('Transform')
Collidable(e) == e.hasCollider /\ e.hasTransform

\* The filtered list, as indices into the Map's values, in Map order.
RECURSIVE collidableEntities(_, _)
collidableEntities(w, i) ==
  IF i > Len(w) THEN <<>>
  ELSE (IF Collidable(w[i]) THEN <<i>> ELSE <<>>) \o collidableEntities(w, i + 1)

updateBoundingBoxes(w) ==
  [i \in 1..Len(w) |->
     IF Collidable(w[i])
     THEN [w[i] EXCEPT !.boundingBox =
             updateBoundingBox(@, w[i].position,
                               Vector2(@.width, @.height))]
     ELSE w[i]]

\* The pairs the two nested loops visit, in the order they visit them.
RECURSIVE PairsFrom(_, _, _)
PairsFrom(c, i, j) ==
  IF i >= Len(c) THEN <<>>
  ELSE IF j > Len(c) THEN PairsFrom(c, i + 1, i + 2)
  ELSE <<(<<c[i], c[j]>>)>> \o PairsFrom(c, i, j + 1)

eventTypeOfA(colliderA, colliderB) ==
  IF colliderA.isTrigger THEN "trigger" ELSE "collision"

eventType(colliderA, colliderB) ==
  IF colliderA.isTrigger \/ colliderB.isTrigger THEN "trigger" ELSE "collision"

CollisionEvent(type, collision) ==
  [type |-> type, collision |-> collision, entityA |-> collision.entityA,
   entityB |-> collision.entityB]

TriggerActivatedEvent(collision) ==
  [type |-> "trigger:activated", entityA |-> collision.entityA,
   entityB |-> collision.entityB, collision |-> collision]

CollisionDetectedEvent(collision) ==
  [type |-> "collision:detected", entityA |-> collision.entityA,
   entityB |-> collision.entityB, collision |-> collision]

isStaticNever(collider) == FALSE

isStatic(collider) == collider.isStatic

\* The world after resolvePhysicalCollision on entities a and b of w, were
\* the boxes to follow the positions it changes
resolvePhysicalCollisionAndBoxes(w, a, b, collision) ==
  LET velA == IF w[a].hasVelocity THEN w[a].velocity ELSE Zero2
      velB == IF w[b].hasVelocity THEN w[b].velocity ELSE Zero2
      resolution ==
        resolveCollision(collision, w[a].mass, w[b].mass, w[a].restitution,
                         w[b].restitution, velA, velB, isStatic(w[a]),
                         isStatic(w[b]))
      Applied(e, newVelocity, separation) ==
        [e EXCEPT
           !.velocity = IF e.hasVelocity /\ ~isStatic(e) THEN newVelocity
                        ELSE @,
           !.position = IF ~isStatic(e)
                        THEN Vector2(Plus(@.x, separation.x),
                                     Plus(@.y, separation.y))
                        ELSE @]
  IN updateBoundingBoxes(
       [w EXCEPT
          ![a] = Applied(@, resolution.newVelocityA, resolution.separationA),
          ![b] = Applied(@, resolution.newVelocityB, resolution.separationB)])

\* The world after resolvePhysicalCollision on entities a and b of w.
resolvePhysicalCollision(w, a, b, collision) ==
  LET velA == IF w[a].hasVelocity THEN w[a].velocity ELSE Zero2
      velB == IF w[b].hasVelocity THEN w[b].velocity ELSE Zero2
      resolution ==
        resolveCollision(collision, w[a].mass, w[b].mass, w[a].restitution,
                         w[b].restitution, velA, velB, isStatic(w[a]),
                         isStatic(w[b]))
      Applied(e, newVelocity, separation) ==
        [e EXCEPT
           !.velocity = IF e.hasVelocity /\ ~isStatic(e) THEN newVelocity
                        ELSE @,
           !.position = IF ~isStatic(e)
                        THEN Vector2(Plus(@.x, separation.x),
                                     Plus(@.y, separation.y))
                        ELSE @]
  IN [w EXCEPT
        ![a] = Applied(@, resolution.newVelocityA, resolution.separationA),
        ![b] = Applied(@, resolution.newVelocityB, resolution.separationB)]

\* The run of update so far: the entities, this.collisionEvents, and the
\* events handed to globalEventDispatcher.emit, in order.
checkEntityPair(st, a, b) ==
  LET colliderA == st.world[a]
      colliderB == st.world[b]
      collision == getCollisionInfo(colliderA.id, colliderB.id,
                                    colliderA.boundingBox,
                                    colliderB.boundingBox)
      type == eventType(colliderA, colliderB)
  IN IF ~canLayersCollide(colliderA.layer, colliderB.layer) THEN st
     ELSE IF ~collision.hit THEN st
     ELSE IF type = "trigger"
     THEN [st EXCEPT
             !.events = Append(@, CollisionEvent(type, collision)),
             !.emitted = Append(@, TriggerActivatedEvent(collision))]
     ELSE [world |-> resolvePhysicalCollision(st.world, a, b, collision),
           events |-> Append(st.events, CollisionEvent(type, collision)),
           emitted |-> Append(st.emitted, CollisionDetectedEvent(collision))]

RECURSIVE CheckPairs(_, _, _)
CheckPairs(st, pairs, k) ==
  IF k > Len(pairs) THEN st
  ELSE CheckPairs(checkEntityPair(st, pairs[k][1], pairs[k][2]), pairs, k + 1)

ResetNothing(events) == events

\* this.collisionEvents = []
Reset(events) == <<>>

update(w, events) ==
  CheckPairs([world |-> updateBoundingBoxes(w), events |-> Reset(events),
              emitted |-> <<>>],
             PairsFrom(collidableEntities(w, 1), 1, 2), 1)

RECURSIVE EmitAll(_, _, _)
EmitAll(h, evs, k) ==
  IF k > Len(evs) THEN h ELSE EmitAll(addToHistory(h, evs[k]), evs, k + 1)

\* The host calls update.  Nothing listens on the global dispatcher or on
\* the system in this specification, so each emit only adds to the history
\* and processCollisionEvents invokes nothing.
CollisionUpdate ==
  /\ stack = <<>>
  /\ globalListeners = <<>>
  /\ LET st == update(world, collisionEvents)
     IN /\ world' = st.world
        /\ collisionEvents' = st.events
        /\ eventHistory' = EmitAll(eventHistory, st.emitted, 1)
  /\ last' = Call("collisionUpdate", 0, NoArg, "")
  /\ UNCHANGED <<registry, subscriptions, stack, busGhost>>
  /\ UNCHANGED <<storeVars, storeGhost, engineVars>>

\* Between two updates the host puts entity i somewhere else.
Move(i, position) ==
  /\ stack = <<>>
  /\ i \in 1..Len(world)
  /\ world[i].hasTransform
  /\ world[i].position # position
  /\ world' = [world EXCEPT ![i].position = position]
  /\ last' = Call("move", i, NoArg, "")
  /\ UNCHANGED <<busVars, busGhost, storeVars, storeGhost, engineVars>>
  /\ UNCHANGED collisionEvents

\* ----------------------------------------------------------- specifications
InitEngine ==
  /\ systems = <<>>
  /\ intervalId = 0
  /\ timers = {}
  /\ lastFrameTime = 0
  /\ deltaTime = 0
  /\ isRunning = FALSE
  /\ isPaused = FALSE
  /\ clock = 0
  /\ tick = NoTick

InitBus ==
  /\ listeners = [t \in EventTypes |-> <<>>]
  /\ oneTimeListeners = [t \in EventTypes |-> <<>>]
  /\ globalListeners = <<>>
  /\ eventHistory = <<>>
  /\ subscriptions = <<>>
  /\ stack = <<>>
  /\ fired = {}
  /\ unsubscribed = {}
  /\ removed = {}
  /\ last = Call("new", 0, NoArg, "")
  /\ ncalls = 0

InitCollision == world = <<>> /\ collisionEvents = <<>>

InitServer == clients = << >> /\ accepted = [ws \in Sockets |-> <<>>]

InitStore(cap) ==
  /\ entities = << >>
  /\ nextEntityId = 1
  /\ maxEntities = cap
  /\ createdIds = <<>>
  /\ cleared = FALSE
  /\ destroyed = {}

\* One more call of a public method, in a run of at most n.
Budget(n) == ncalls < n /\ ncalls' = ncalls + 1

\* The ids a caller may pass: every id handed out so far, and one that
\* never was.
Ids == 1..(Len(createdIds) + 1)

\* A store constructed with a small capacity, and the global dispatcher with
\* listeners that call back into the store.
Init ==
  /\ InitBus /\ InitEngine /\ InitCollision /\ InitServer
  /\ \E cap \in 1..MaxCap : InitStore(cap)

Next ==
  \/ Budget(MaxStoreCalls) /\ CreateEntity /\ UNCHANGED <<engineVars, collisionVars, serverVars>>
  \/ /\ Budget(MaxStoreCalls)
     /\ \E id \in Ids : DestroyEntity(id)
     /\ UNCHANGED <<engineVars, collisionVars, serverVars>>
  \/ /\ Budget(MaxStoreCalls)
     /\ \E id \in Ids, c \in Components : AddComponent(id, c)
     /\ UNCHANGED <<engineVars, collisionVars, serverVars>>
  \/ /\ Budget(MaxStoreCalls)
     /\ \E id \in Ids, ctype \in ComponentTypes : RemoveComponent(id, ctype)
     /\ UNCHANGED <<engineVars, collisionVars, serverVars>>
  \/ Budget(MaxStoreCalls) /\ Clear /\ UNCHANGED <<engineVars, collisionVars, serverVars>>
  \/ Budget(MaxStoreCalls) /\ OnAll("f") /\ UNCHANGED <<engineVars, collisionVars, serverVars>>
  \/ Return /\ UNCHANGED <<ncalls, engineVars, collisionVars, serverVars>>
  \/ Throw /\ UNCHANGED <<ncalls, engineVars, collisionVars, serverVars>>

Spec == Init /\ [][Next]_vars

\* The dispatcher alone, driven by custom events; the store is the default one.
BusInit ==
  /\ InitBus /\ InitEngine /\ InitCollision /\ InitServer
  /\ InitStore(DefaultMaxEntities)

BusNext ==
  \/ /\ Budget(MaxBusCalls)
     /\ \E t \in CustomTypes, f \in Fns : On(t, f)
     /\ UNCHANGED <<engineVars, collisionVars, serverVars>>
  \/ /\ Budget(MaxBusCalls)
     /\ \E t \in CustomTypes, f \in Fns : Once(t, f)
     /\ UNCHANGED <<engineVars, collisionVars, serverVars>>
  \/ Budget(MaxBusCalls) /\ (\E f \in Fns : OnAll(f)) /\ UNCHANGED <<engineVars, collisionVars, serverVars>>
  \/ /\ Budget(MaxBusCalls)
     /\ \E h \in 1..Len(subscriptions) : Unsubscribe(h)
     /\ UNCHANGED <<engineVars, collisionVars, serverVars>>
  \/ /\ Budget(MaxBusCalls)
     /\ \E t \in CustomTypes : Emit(t)
     /\ UNCHANGED <<engineVars, collisionVars, serverVars>>
  \/ Return /\ UNCHANGED <<ncalls, engineVars, collisionVars, serverVars>>
  \/ Throw /\ UNCHANGED <<ncalls, engineVars, collisionVars, serverVars>>

BusSpec == BusInit /\ [][BusNext]_vars

\* The dispatcher under a long run of emits: the host program, or the one
\* global listener, emits events that carry their number in the run.
Emitted == ncalls - Len(subscriptions)

HistNext ==
  \/ /\ Budget(MaxHistCalls)
     /\ Len(stack) < MaxHistDepth
     /\ EmitData("custom:a", Emitted + 1)
     /\ UNCHANGED <<engineVars, collisionVars, serverVars>>
  \/ /\ Budget(MaxHistCalls)
     /\ globalListeners = <<>>
     /\ OnAll("f")
     /\ UNCHANGED <<engineVars, collisionVars, serverVars>>
  \/ Return /\ UNCHANGED <<ncalls, engineVars, collisionVars, serverVars>>
  \/ Throw /\ UNCHANGED <<ncalls, engineVars, collisionVars, serverVars>>

HistSpec == BusInit /\ [][HistNext]_vars

\* An engine with the default store, its systems and its timer; the global
\* dispatcher may have a listener that calls back into the engine.
EngineNext ==
  \/ /\ Budget(MaxEngineCalls) /\ CanCall /\ \E s \in Systems : AddSystem(s)
     /\ UNCHANGED <<collisionVars, serverVars>>
  \/ /\ Budget(MaxEngineCalls) /\ CanCall /\ \E n \in SystemNames : RemoveSystem(n)
     /\ UNCHANGED <<collisionVars, serverVars>>
  \/ /\ Budget(MaxEngineCalls) /\ CanCall /\ Start
     /\ UNCHANGED <<collisionVars, serverVars>>
  \/ /\ Budget(MaxEngineCalls) /\ CanCall /\ Stop
     /\ UNCHANGED <<collisionVars, serverVars>>
  \/ /\ Budget(MaxEngineCalls) /\ CanCall /\ Pause
     /\ UNCHANGED <<collisionVars, serverVars>>
  \/ /\ Budget(MaxEngineCalls) /\ CanCall /\ ResumeEngine
     /\ UNCHANGED <<collisionVars, serverVars>>
  \/ /\ Budget(MaxEngineCalls) /\ CanCall /\ OnAll("f")
     /\ UNCHANGED <<engineVars, collisionVars, serverVars>>
  \/ /\ Budget(MaxEngineCalls) /\ TimerFires
     /\ UNCHANGED <<collisionVars, serverVars>>
  \/ CallUpdate /\ UNCHANGED <<ncalls, collisionVars, serverVars>>
  \/ UpdateReturns /\ UNCHANGED <<ncalls, collisionVars, serverVars>>
  \/ UpdateThrows /\ UNCHANGED <<ncalls, collisionVars, serverVars>>
  \/ Advance /\ UNCHANGED <<ncalls, collisionVars, serverVars>>
  \/ TickReturns /\ UNCHANGED <<ncalls, collisionVars, serverVars>>
  \/ Return /\ UNCHANGED <<ncalls, engineVars, collisionVars, serverVars>>
  \/ Throw /\ UNCHANGED <<ncalls, engineVars, collisionVars, serverVars>>

EngineSpec == BusInit /\ [][EngineNext]_vars

\* The collision system alone.  Either three entities of which the second
\* may lack a component, for what update detects and records; or two
\* overlapping entities with masses, restitutions and velocities, the second
\* of them a trigger or not, for what the resolution does to them.
At(x, y) == Vector2(Q(x), Q(y))
Solid(width, layer, isTrigger) ==
  createCollider(Q(width), Q(10), layer, isTrigger, FALSE, Q(1), <<1, 2>>)
Widths == {0, 5, 10}
ContactLayers ==
  {CollisionLayers.PLAYER, CollisionLayers.ENEMY, CollisionLayers.PROJECTILE}
Kinds == {"full", "noCollider", "noTransform"}
Near == {At(x, y) : x \in {-10, -5, 0, 5}, y \in {-5, 0, 5, 10}}
Far == {At(5, 0), At(15, 0), At(20, 20)}
Moves == {At(20, 20)}
Masses == {Q(1), Q(2)}
Restitutions == {Q(0), <<1, 2>>, Q(1)}
Beside == {At(5, 0), At(-5, 0), At(0, 5)}
VelocitiesA == {At(10, 3), At(-10, 0)}
VelocitiesB == {At(-5, 0)}

DetectWorlds ==
  {<<Entity(1, TRUE, At(0, 0), FALSE, Zero2, TRUE, Solid(w, l1, t)),
     Entity(2, k # "noTransform", p2, FALSE, Zero2, k # "noCollider",
            Solid(10, l2, FALSE)),
     Entity(3, TRUE, p3, FALSE, Zero2, TRUE,
            Solid(10, CollisionLayers.ENEMY, FALSE))>> :
     <<w, l1, t, k, p2, l2, p3>> \in
       Widths \X ContactLayers \X BOOLEAN \X Kinds \X Near \X ContactLayers
         \X Far}

ResolveWorlds ==
  {<<Entity(1, TRUE, At(0, 0), hv[1], va, TRUE,
            createCollider(Q(10), Q(10), CollisionLayers.DEFAULT, FALSE,
                           s[1], m[1], r[1])),
     Entity(2, TRUE, p, hv[2], vb, TRUE,
            createCollider(Q(10), Q(10), CollisionLayers.DEFAULT, t,
                           s[2], m[2], r[2]))>> :
     <<s, m, r, hv, va, vb, p, t>> \in
       (BOOLEAN \X BOOLEAN) \X (Masses \X Masses)
         \X (Restitutions \X {<<1, 2>>, Q(1)}) \X (BOOLEAN \X BOOLEAN)
         \X VelocitiesA \X VelocitiesB \X Beside \X BOOLEAN}

CollisionInit ==
  /\ InitBus /\ InitEngine /\ InitStore(DefaultMaxEntities) /\ InitServer
  /\ collisionEvents = <<>>
  /\ world \in DetectWorlds \cup ResolveWorlds

CollisionNext ==
  \/ Budget(MaxCollisionCalls) /\ CollisionUpdate /\ UNCHANGED serverVars
  \/ /\ Budget(MaxCollisionCalls)
     /\ \E p \in Moves : Move(1, p)
     /\ UNCHANGED serverVars

CollisionSpec == CollisionInit /\ [][CollisionNext]_vars

\* ------------------------------------------------------------------ claims
\* The step is a call of method op (every call spends one unit of the run's
\* budget and records itself in last).
IsCall(op) == ncalls' = ncalls + 1 /\ last'.op = op

Failed(err) == last'.err = err

Size == Cardinality(Live)

LastEvent(h) == h[Len(h)]

\* The step emitted exactly the event ev, and no other.
EmittedOnly(ev) == eventHistory' = Append(eventHistory, ev)

StoreUnchanged == UNCHANGED <<entities, nextEntityId, maxEntities>>

BusUnchanged ==
  UNCHANGED <<listeners, oneTimeListeners, globalListeners, eventHistory, stack>>

\* C1: on a store on which clear() was never called, the ids that
\* createEntity hands out, in call order, start at 1 and are strictly
\* increasing, so none is handed out twice, whatever destroyEntity,
\* addComponent and removeComponent calls come in between.
C1_IdsStrictlyIncreasing ==
  ~cleared =>
    /\ Len(createdIds) > 0 => createdIds[1] = 1
    /\ \A j, k \in 1..Len(createdIds) : j < k => createdIds[j] < createdIds[k]

\* A store of capacity 1 has handed out id 2: id 1 was destroyed before.
C1_Witness ==
  /\ ~cleared
  /\ maxEntities = 1
  /\ 1 \in destroyed
  /\ last = Call("createEntity", 2, NoArg, "")

\* C2: createEntity throws the capacity error exactly when the number of live
\* entities has reached maxEntities; the failed call adds no entity, consumes
\* no id and emits no event; a successful call adds one entity; the live
\* count never exceeds maxEntities; and a destroyEntity of a live entity
\* leaves room for the next createEntity.
C2_Capacity ==
  /\ [](Size <= maxEntities)
  /\ [][/\ IsCall("createEntity") =>
             /\ Failed("CapacityExceeded") <=> Size >= maxEntities
             /\ Failed("CapacityExceeded") =>
                  StoreUnchanged /\ BusUnchanged /\ UNCHANGED createdIds
             /\ ~Failed("CapacityExceeded") =>
                  /\ Failed("")
                  /\ Live' = Live \cup {last'.id}
                  /\ last'.id \notin Live
                  /\ EmittedOnly(EntityCreatedEvent(last'.id))
        /\ IsCall("destroyEntity") /\ last'.id \in Live =>
             Cardinality(Live') < maxEntities]_vars

\* createEntity has just failed on a full store that had been full before:
\* an entity was destroyed and the create after it succeeded.
C2_Witness ==
  /\ last = Call("createEntity", 0, NoArg, "CapacityExceeded")
  /\ Size = maxEntities
  /\ destroyed # {}
  /\ Len(createdIds) > maxEntities

\* What destroyEntity does in one call: a live entity is removed with its
\* components and exactly one entity:destroyed event is emitted; an unknown
\* id changes nothing and emits nothing.
DestroyStep ==
  \A id \in Ids : IsCall("destroyEntity") /\ last'.id = id =>
        /\ Failed("")
        /\ UNCHANGED <<nextEntityId, maxEntities>>
        /\ id \in Live =>
             /\ Live' = Live \ {id}
             /\ \A i \in Live' : entities'[i] = entities[i]
             /\ getEntity(id)' = "undefined"
             /\ \A t \in ComponentTypes :
                  ~hasComponent(id, t)' /\ getComponent(id, t)' = "undefined"
             /\ EmittedOnly(EntityDestroyedEvent(id))
        /\ id \notin Live => StoreUnchanged /\ BusUnchanged

\* C3 as stated: DestroyStep, and an id that destroyEntity has removed is
\* absent from then on.
C3_AbsentForever ==
  [][DestroyStep /\ \A i \in destroyed' : i \notin Live']_vars

\* C3 amended: DestroyStep, and an id that destroyEntity has removed is
\* absent for as long as clear() has not been called on the store.
C3_AbsentUntilClear ==
  [][DestroyStep /\ (~cleared' => \A i \in destroyed' : i \notin Live')]_vars

\* A destroyed id stays absent while entities are created after it, and a
\* second destroyEntity of it has just been a no-op.
C3_Witness ==
  /\ ~cleared
  /\ last = Call("destroyEntity", 1, NoArg, "")
  /\ 1 \in destroyed
  /\ 2 \in Live
  /\ Len(eventHistory) = 3
  /\ LastEvent(eventHistory) = EntityCreatedEvent(2)

\* C4: addComponent and removeComponent with an id that is not a live entity
\* throw the entity-not-found error, change nothing in the store and emit no
\* event (and they throw it in no other case).
C4_EntityNotFound ==
  [][IsCall("addComponent") \/ IsCall("removeComponent") =>
       /\ Failed("EntityNotFound") <=> last'.id \notin Live
       /\ last'.id \notin Live =>
            StoreUnchanged /\ BusUnchanged /\ UNCHANGED createdIds]_vars

\* addComponent has just failed on an id whose entity was destroyed.
C4_Witness ==
  /\ last.op = "addComponent"
  /\ last.err = "EntityNotFound"
  /\ last.id \in destroyed
  /\ Size > 0

\* C5: a successful addComponent leaves the entity with exactly the given
\* component under its type (replacing one that was there), its other
\* components and the other entities as they were, and emits exactly one
\* component:added event, also when it overwrites.
C5_AddOverwrites ==
  [][\A id \in Ids, c \in Components :
       IsCall("addComponent") /\ Failed("") /\ last'.id = id /\ last'.arg = c =>
           /\ Live' = Live
           /\ DOMAIN entities'[id] = DOMAIN entities[id] \cup {c.type}
           /\ getComponent(id, c.type)' = c
           /\ \A t \in DOMAIN entities[id] \ {c.type} :
                entities'[id][t] = entities[id][t]
           /\ \A i \in Live \ {id} : entities'[i] = entities[i]
           /\ EmittedOnly(ComponentAddedEvent(id, c))]_vars

\* An addComponent has just replaced a component of the same type holding
\* another payload, on an entity that has a component of the other type too.
C5_Witness ==
  /\ last.op = "addComponent" /\ last.err = ""
  /\ DOMAIN entities[last.id] = ComponentTypes
  /\ \E k \in 1..(Len(eventHistory) - 1) :
       /\ eventHistory[k].type = "component:added"
       /\ eventHistory[k].entityId = last.id
       /\ eventHistory[k].componentType = last.arg.type
       /\ eventHistory[k].value # last.arg.val
  /\ LastEvent(eventHistory) = ComponentAddedEvent(last.id, last.arg)

\* C6: removeComponent on a live entity: if the entity has no component of
\* the type, nothing changes and nothing is emitted; otherwise that
\* component alone is removed and exactly one component:removed event is
\* emitted.
C6_RemoveComponent ==
  [][\A id \in Live, t \in ComponentTypes :
       IsCall("removeComponent") /\ last'.id = id /\ last'.arg.type = t =>
           /\ Failed("")
           /\ ~hasComponent(id, t) => StoreUnchanged /\ BusUnchanged
           /\ hasComponent(id, t) =>
                /\ Live' = Live
                /\ DOMAIN entities'[id] = DOMAIN entities[id] \ {t}
                /\ \A u \in DOMAIN entities'[id] :
                     entities'[id][u] = entities[id][u]
                /\ \A i \in Live \ {id} : entities'[i] = entities[i]
                /\ EmittedOnly(ComponentRemovedEvent(id, t))]_vars

\* A removeComponent has removed one of an entity's two components, and a
\* second identical call has emitted nothing more.
C6_Witness ==
  /\ last.op = "removeComponent" /\ last.err = ""
  /\ last.id \in Live
  /\ Cardinality(DOMAIN entities[last.id]) = 1
  /\ ~hasComponent(last.id, last.arg.type)
  /\ LastEvent(eventHistory) = ComponentRemovedEvent(last.id, last.arg.type)
  /\ ncalls = 5 /\ Len(eventHistory) = 4

\* ---------------------------------------------------------- bus claims
Kind(r) == subscriptions[r].kind

Rank(r) == IF Kind(r) = "on" THEN 1 ELSE IF Kind(r) = "once" THEN 2 ELSE 3

Top(st) == st[Len(st)]

\* The step invokes registration r: an emit starts and stops inside r, or
\* the emit on top of the stack goes on to r.
InvokedNow(r) ==
  /\ stack' # <<>>
  /\ Top(stack').log # <<>>
  /\ r = Top(stack').log[Len(Top(stack').log)]
  /\ \/ Len(stack') > Len(stack)
     \/ Len(stack') = Len(stack) /\ Top(stack').log # Top(stack).log

\* The step ends the emit on top of the stack (its last listener returns).
Completes == last'.op \in {"return", "throw"} /\ Len(stack') < Len(stack)

InRegistry(r) ==
  \/ \E t \in EventTypes : \E k \in 1..Len(listeners[t]) : listeners[t][k].reg = r
  \/ \E t \in EventTypes :
       \E k \in 1..Len(oneTimeListeners[t]) : oneTimeListeners[t][k].reg = r
  \/ \E k \in 1..Len(globalListeners) : globalListeners[k].reg = r

\* C7: in every emit the listeners are invoked specific first, then
\* one-time, then global, each group in registration order, and only
\* listeners of the event's type or global ones; and an emit during which no
\* listener array was changed by anything else has invoked, when it ends, all
\* the specific, all the one-time and all the global listeners.
C7_InvocationOrder ==
  /\ [](\A d \in 1..Len(stack) :
          LET fr == stack[d]
          IN  /\ \A j, k \in 1..Len(fr.log) : j < k =>
                   \/ Rank(fr.log[j]) < Rank(fr.log[k])
                   \/ Rank(fr.log[j]) = Rank(fr.log[k]) /\ fr.log[j] < fr.log[k]
              /\ \A k \in 1..Len(fr.log) :
                   \/ Kind(fr.log[k]) = "onAll"
                   \/ subscriptions[fr.log[k]].type = fr.type)
  /\ [][Completes /\ Top(stack).clean =>
          Top(stack).log = Regs(listeners[Top(stack).type])
                             \o Regs(Top(stack).list) \o Regs(globalListeners)]_vars

\* An emit has invoked a specific, then a one-time, and is now inside a
\* global listener.
C7_Witness ==
  /\ Len(stack) = 1
  /\ stack[1].phase = 3
  /\ stack[1].clean
  /\ stack[1].log = <<1, 2, 3>>
  /\ Kind(1) = "on" /\ Kind(2) = "once" /\ Kind(3) = "onAll"

OnceRegs == {r \in 1..Len(subscriptions) : Kind(r) = "once"}

\* Registration r waits in the one-time array an emit in progress took and
\* has not reached yet.
Pending(st, r) ==
  \E d \in 1..Len(st) :
    /\ st[d].phase = 2
    /\ \E k \in (st[d].idx + 1)..Len(st[d].list) : st[d].list[k].reg = r

\* C8: a once-registration is invoked at most once, and it is out of the
\* registry before it is invoked (so an emit made during the dispatch cannot
\* reach it again); when an emit of its type made after it was registered
\* has ended, it has been invoked exactly once, unless an unsubscribe()
\* removed it or an enclosing emit that took it has yet to reach it, and
\* once no emit is in progress it is registered, invoked or removed.
C8_OnceFiresOnce ==
  /\ [](\A r \in OnceRegs :
          /\ r \in fired => ~InRegistry(r) /\ r \notin removed
          /\ stack = <<>> => InRegistry(r) \/ r \in fired \/ r \in removed
          /\ \A d \in 1..Len(stack) :
               (\E k \in 1..Len(stack[d].list) : stack[d].list[k].reg = r)
                 => ~InRegistry(r))
  /\ [][/\ \A r \in OnceRegs : InvokedNow(r) => r \notin fired
        /\ Completes =>
             \A r \in OnceRegs :
               r <= Top(stack).n0 /\ subscriptions[r].type = Top(stack).type
                 => r \in fired' \/ r \in removed' \/ Pending(stack', r)
        /\ \A t \in CustomTypes :
             IsCall("emit") /\ last'.arg.type = t /\ stack' = stack =>
               \A r \in OnceRegs :
                 subscriptions[r].type = t =>
                   r \in fired \/ r \in removed \/ Pending(stack, r)]_vars

\* A specific listener has emitted its own event type again, and the
\* one-time listener is being invoked inside that inner emit.
C8_Witness ==
  /\ Len(stack) = 2
  /\ stack[1].type = stack[2].type
  /\ stack[1].phase = 1
  /\ stack[2].phase = 2
  /\ stack[2].log = <<1, 2>>
  /\ fired = {2}

\* The array with the element of registration h taken out.
Without(arr, h) == SelectSeq(arr, LAMBDA e : e.reg # h)

\* C9 as stated: unsubscribe() removes the registration that created the
\* handle and no other, leaving the rest in order; a second unsubscribe()
\* on the same handle changes nothing.
C9_RemovesOnlyItsOwn ==
  [][\A h \in 1..Len(subscriptions) :
       IsCall("unsubscribe") /\ last'.id = h =>
         IF h \in unsubscribed
         THEN UNCHANGED <<listeners, oneTimeListeners, globalListeners>>
         ELSE /\ listeners' = [t \in EventTypes |-> Without(listeners[t], h)]
              /\ oneTimeListeners' =
                   [t \in EventTypes |-> Without(oneTimeListeners[t], h)]
              /\ globalListeners' = Without(globalListeners, h)]_vars

\* C10 as stated: a registration whose handle's unsubscribe() has returned
\* is never invoked again.
C10_NeverAfterUnsubscribe ==
  [][\A r \in unsubscribed : ~InvokedNow(r)]_vars

\* The registrations an emit in progress invokes from first to last when
\* nothing but the emit itself changes the registry: the specific ones, the
\* one-time ones (still registered while the first loop runs, in the
\* emit's own array after), the global ones.
FullRound(fr) ==
  Regs(listeners[fr.type])
    \o Regs(IF fr.phase = 1 THEN oneTimeListeners[fr.type] ELSE fr.list)
    \o Regs(globalListeners)

\* C11: when the running listener throws, nothing reaches the caller of
\* emit (no error is recorded and no emit in progress is abandoned), and the
\* emit goes on exactly where it would after a return: it invokes the next
\* listener of its round, specific, one-time or global, and ends only when the
\* round is complete.
C11_ThrowStopsNothing ==
  [][last'.op = "throw" =>
       /\ last'.err = ""
       /\ Len(stack') >= Len(stack) - 1
       /\ Top(stack).clean =>
            LET full == FullRound(Top(stack))
                n == Len(Top(stack).log)
            IN  /\ Top(stack).log = SubSeq(full, 1, n)
                /\ IF n = Len(full)
                   THEN Len(stack') = Len(stack) - 1
                   ELSE /\ Len(stack') = Len(stack)
                        /\ Top(stack').type = Top(stack).type
                        /\ Top(stack').log = SubSeq(full, 1, n + 1)]_vars

\* A specific listener has thrown and the emit has gone on to the global
\* listener.
C11_Witness ==
  /\ last.op = "throw"
  /\ Len(stack) = 1
  /\ stack[1].log = <<1, 2>>
  /\ Kind(1) = "on" /\ Kind(2) = "onAll"

Min(a, b) == IF a < b THEN a ELSE b

\* C12: after n emits the history holds exactly the latest min(n, 1000)
\* events, oldest first, so it never holds more than 1000 and the oldest is
\* the one dropped, whether a listener is registered, returns or throws.
C12_HistoryKeepsLatest ==
  LET n == Emitted
      k == Min(n, 1000)
  IN  /\ Len(eventHistory) = k
      /\ \A i \in 1..k :
           eventHistory[i] = CustomEventWith("custom:a", n - k + i)

\* The 1001st event has pushed the first one out, and the listener it was
\* dispatched to has thrown.
C12_Witness ==
  /\ Len(eventHistory) = 1000
  /\ eventHistory[1].value = 2
  /\ eventHistory[1000].value = 1001
  /\ globalListeners # <<>>
  /\ last.op = "throw"

GlobalRegs == {r \in 1..Len(subscriptions) : Kind(r) = "onAll"}

InLog(fr, r) == \E k \in 1..Len(fr.log) : fr.log[k] = r

\* C13 as stated: a global listener that is registered, and whose handle was
\* never unsubscribed, receives each event emitted since its registration
\* exactly once and in the order of the emit calls: of two emits in progress
\* it has not received the later event while the earlier is still to come,
\* it is not invoked twice by one emit, and an emit does not end without it.
C13_GlobalInEmissionOrder ==
  /\ [](\A g \in GlobalRegs :
          InRegistry(g) /\ g \notin unsubscribed =>
            /\ \A d1, d2 \in 1..Len(stack) :
                 d1 < d2 /\ g <= stack[d1].n0 /\ InLog(stack[d2], g)
                   => InLog(stack[d1], g)
            /\ \A d \in 1..Len(stack) :
                 Cardinality({k \in 1..Len(stack[d].log) : stack[d].log[k] = g}) <= 1)
  /\ [][Completes =>
          \A g \in GlobalRegs :
            g <= Top(stack).n0 /\ InRegistry(g) /\ g \notin unsubscribed
              => InLog(Top(stack), g)]_vars

\* -------------------------------------------------------- engine claims
EngineUnchanged == UNCHANGED engineVars

\* C14: start() on a stopped engine sets isRunning, clears isPaused, makes
\* the one timer and emits exactly one engine:started; on a running engine
\* it changes nothing.  stop() on a running engine cancels the timer,
\* clears isRunning and emits exactly one engine:stopped; on a stopped
\* engine it changes nothing.  At most one timer exists, and one exists
\* exactly when isRunning.
C14_StartStop ==
  /\ [](/\ Cardinality(timers) <= 1
        /\ timers # {} <=> isRunning
        /\ timers = IF intervalId = 0 THEN {} ELSE {intervalId})
  /\ [][/\ IsCall("start") =>
             IF isRunning
             THEN EngineUnchanged /\ BusUnchanged
             ELSE /\ isRunning' /\ ~isPaused'
                  /\ Cardinality(timers') = 1
                  /\ EmittedOnly(EngineStartedEvent)
        /\ IsCall("stop") =>
             IF isRunning
             THEN /\ ~isRunning'
                  /\ timers' = {}
                  /\ EmittedOnly(EngineStoppedEvent)
             ELSE EngineUnchanged /\ BusUnchanged]_vars

\* The engine was started, stopped and started again, and a further
\* start() has just changed nothing.
C14_Witness ==
  /\ last.op = "start"
  /\ ncalls = 4
  /\ isRunning
  /\ Cardinality(timers) = 1
  /\ eventHistory =
       <<EngineStartedEvent, EngineStoppedEvent, EngineStartedEvent>>

\* C15: pause() acts only on a running engine that is not paused, resume()
\* only on a running paused one, and then each sets the flag and emits
\* exactly one engine:paused or engine:resumed; otherwise they change
\* nothing.  isPaused implies isRunning, and stop() and start() leave
\* isPaused false.
C15_PauseResume ==
  /\ [](isPaused => isRunning)
  /\ [][/\ IsCall("pause") =>
             IF isRunning /\ ~isPaused
             THEN /\ isPaused'
                  /\ EmittedOnly(EnginePausedEvent)
                  /\ UNCHANGED <<isRunning, timers, intervalId, systems,
                                 lastFrameTime, deltaTime>>
             ELSE EngineUnchanged /\ BusUnchanged
        /\ IsCall("resume") =>
             IF isRunning /\ isPaused
             THEN /\ ~isPaused'
                  /\ EmittedOnly(EngineResumedEvent)
                  /\ UNCHANGED <<isRunning, timers, intervalId, systems,
                                 deltaTime>>
             ELSE EngineUnchanged /\ BusUnchanged
        /\ IsCall("stop") => ~isPaused'
        /\ IsCall("start") => (isPaused' <=> isRunning /\ isPaused)]_vars

\* A paused engine was stopped, and start() has just begun it unpaused.
C15_Witness ==
  /\ last.op = "start"
  /\ isRunning /\ ~isPaused
  /\ eventHistory = <<EngineStartedEvent, EnginePausedEvent,
                      EngineStoppedEvent, EngineStartedEvent>>

\* C16: a timer firing on a paused engine does nothing: no update is
\* called, no event is emitted, deltaTime and lastFrameTime keep their
\* values.
C16_PausedTickSkipped ==
  [][IsCall("tick") /\ isPaused =>
       /\ EngineUnchanged
       /\ BusUnchanged
       /\ ~InTick']_vars

\* The timer has just fired on a paused engine that has a system.
C16_Witness ==
  /\ last = Call("tick", 0, NoArg, "")
  /\ isPaused
  /\ systems # <<>>
  /\ eventHistory[Len(eventHistory)] = EnginePausedEvent

\* What a tick over array arr does when every update returns.
RECURSIVE Expected(_)
Expected(arr) ==
  IF arr = <<>> THEN <<Did("tick", "")>>
  ELSE <<Did("start", Head(arr)), Did("update", Head(arr)),
         Did("end", Head(arr))>> \o Expected(Tail(arr))

\* The event that an entry of a tick's log stands for.
EventOf(d, dt, n) ==
  IF d.what = "start" THEN SystemUpdateStartEvent(SystemName(d.sys), dt, n)
  ELSE IF d.what = "end" THEN SystemUpdateEndEvent(SystemName(d.sys), dt, n)
  ELSE EngineTickEvent(dt, n)

\* C17: a tick that is not skipped and in which every update returns has,
\* when it ends, gone through the systems in array order, for each one
\* system:update:start, update, system:update:end, and then one
\* engine:tick; each of these events is emitted at its step and no other
\* event is; and the array the tick begins with is this.systems, the
\* systems in registration order.
C17_TickOrder ==
  [][/\ last'.op = "ticked" => tick.log = Expected(tick.arr)
     /\ IsCall("tick") /\ ~isPaused =>
          /\ tick'.arr = systems /\ tick'.n0 = Len(systems)
          /\ systems' = systems
     /\ last'.op \in {"tick", "updated", "next"} /\ tick'.log # tick.log
          /\ InTick' =>
          /\ Len(tick'.log) <= Len(Expected(tick'.arr))
          /\ tick'.log = SubSeq(Expected(tick'.arr), 1, Len(tick'.log))
          /\ EmittedOnly(EventOf(tick'.log[Len(tick'.log)], deltaTime',
                                 Cardinality(tick'.entityMap)))
     /\ last'.op = "update" =>
          /\ tick'.log = SubSeq(Expected(tick'.arr), 1, Len(tick'.log))
          /\ UNCHANGED eventHistory]_vars

\* A tick over two different systems has just ended.
C17_Witness ==
  /\ last.op = "ticked"
  /\ Len(tick.arr) = 2
  /\ tick.arr[1] # tick.arr[2]
  /\ tick.arr = systems
  /\ Len(tick.log) = 7

\* C18 as stated: the tick in progress updates no system that was added
\* after the tick began.
C18_AddedSystemWaits ==
  InTick /\ tick.stage = "update" => tick.idx <= tick.n0

\* C19: removeSystem(name) leaves exactly the systems of another name, in
\* their order, and changes nothing else of the engine; it emits exactly one
\* system:removed if a system had the name, and nothing otherwise.
C19_RemoveSystem ==
  [][\A n \in SystemNames :
       IsCall("removeSystem") /\ last'.arg.type = n =>
         /\ systems' = SelectSeq(systems, LAMBDA x : SystemName(x) # n)
         /\ UNCHANGED <<intervalId, timers, lastFrameTime, deltaTime,
                        isRunning, isPaused>>
         /\ IF \E k \in 1..Len(systems) : SystemName(systems[k]) = n
            THEN EmittedOnly(SystemRemovedEvent(n))
            ELSE systems' = systems /\ BusUnchanged]_vars

\* Two systems of one name stood around a system of another name, and
\* removeSystem of the shared name has just left the other one alone.
C19_Witness ==
  /\ last.op = "removeSystem"
  /\ systems = <<"b">>
  /\ eventHistory =
       <<SystemAddedEvent("physics"), SystemAddedEvent("render"),
         SystemAddedEvent("physics"), SystemRemovedEvent("physics")>>

\* C20: when an update throws, the exception leaves tick: the tick is over,
\* the error reaches the caller of tick, nothing is emitted at that step,
\* and from then on the tick updates no further system and emits
\* neither system:update:end for the failing system nor engine:tick.
C20_UpdateThrowPropagates ==
  /\ [](tick.threw =>
          /\ ~InTick
          /\ tick.log # <<>>
          /\ tick.log[Len(tick.log)].what = "update"
          /\ tick.log = SubSeq(Expected(tick.arr), 1, Len(tick.log)))
  /\ [][/\ last'.op = "updateThrows" =>
             /\ last'.err = "UpdateThrew"
             /\ tick'.threw /\ ~InTick'
             /\ tick'.log = tick.log
             /\ BusUnchanged
        /\ last'.op = "updateThrows" <=> (~tick.threw /\ tick'.threw)
        /\ tick.threw /\ tick'.threw => tick'.log = tick.log]_vars

\* The first of two systems has thrown: the tick is over after its update.
C20_Witness ==
  /\ tick.threw
  /\ Len(tick.arr) = 2
  /\ Len(tick.log) = 2
  /\ last.err = "UpdateThrew"

\* ------------------------------------------------- claims on the collisions
\* Layer b is in layer a's list of the matrix.
Allows(a, b) == \E k \in 1..Len(CollisionMatrix[a]) : CollisionMatrix[a][k] = b

\* The entity of the world with this id.
EntityOf(id) == world[id]

\* The record or event x is about entities whose layers are la and lb.
Between(x, la, lb) ==
  {EntityOf(x.entityA).layer, EntityOf(x.entityB).layer} = {la, lb}

\* The centred boxes of entities i and j of the world overlap as update sees it.
Touching(i, j) ==
  /\ Collidable(world[i]) /\ Collidable(world[j])
  /\ checkAABBCollision(world[i].boundingBox, world[j].boundingBox)

\* C21: for every two of the seven default layers canLayersCollide gives the
\* same answer in both orders, which is that one of the two is in the
\* other's list; PLAYER and PROJECTILE never collide and PLAYER and ENEMY do;
\* and no record or event of the collision system is ever about a PLAYER and
\* a PROJECTILE, whichever of them comes first.
C21_LayersSymmetric ==
  /\ \A a \in Layers, b \in Layers :
       /\ canLayersCollide(a, b) = canLayersCollide(b, a)
       /\ canLayersCollide(a, b) = (Allows(a, b) \/ Allows(b, a))
  /\ ~canLayersCollide(CollisionLayers.PLAYER, CollisionLayers.PROJECTILE)
  /\ ~canLayersCollide(CollisionLayers.PROJECTILE, CollisionLayers.PLAYER)
  /\ canLayersCollide(CollisionLayers.PLAYER, CollisionLayers.ENEMY)
  /\ canLayersCollide(CollisionLayers.ENEMY, CollisionLayers.PLAYER)
  /\ \A k \in 1..Len(collisionEvents) :
       ~Between(collisionEvents[k], CollisionLayers.PLAYER,
                CollisionLayers.PROJECTILE)
  /\ \A k \in 1..Len(eventHistory) :
       ~Between(eventHistory[k], CollisionLayers.PLAYER,
                CollisionLayers.PROJECTILE)

\* An update has run over a PLAYER and a PROJECTILE whose boxes overlap, and
\* over an ENEMY that overlaps one of them and is recorded for it.
C21_Witness ==
  /\ last.op = "collisionUpdate"
  /\ Len(world) = 3
  /\ world[1].layer = CollisionLayers.PLAYER
  /\ world[2].layer = CollisionLayers.PROJECTILE
  /\ Touching(1, 2)
  /\ Touching(2, 3)
  /\ \E k \in 1..Len(collisionEvents) :
       collisionEvents[k].entityA = 2 /\ collisionEvents[k].entityB = 3

\* The bounding boxes of the colliders of the world.
Boxes ==
  {world[i].boundingBox : i \in {k \in 1..Len(world) : world[k].hasCollider}}

Positive(q) == Less(Q(0), q)

\* Both functions say of boxes a and b, in either order, exactly that their
\* intersection has positive extent on both axes.
ReportsOverlap(a, b) ==
  LET overlap == Positive(OverlapX(a, b)) /\ Positive(OverlapY(a, b))
  IN /\ checkAABBCollision(a, b) = overlap
     /\ getCollisionInfo(1, 2, a, b).hit = overlap
     /\ checkAABBCollision(b, a) = overlap
     /\ getCollisionInfo(2, 1, b, a).hit = overlap

\* C22 as stated: checkAABBCollision and getCollisionInfo report a collision
\* exactly when the two boxes overlap with strictly positive extent on both
\* axes, in whichever order the boxes are given.
C22_StrictOverlapAnyBox == \A a \in Boxes, b \in Boxes : ReportsOverlap(a, b)

\* C22, amended: for boxes of positive width and height, checkAABBCollision
\* and getCollisionInfo report a collision exactly when the two boxes overlap
\* with strictly positive extent on both axes, so boxes that touch along an
\* edge or at a corner, or are apart, yield none; the answer is the same when
\* the boxes are swapped.
C22_StrictOverlap ==
  \A a \in Boxes, b \in Boxes :
    (/\ Positive(a.width) /\ Positive(a.height)
     /\ Positive(b.width) /\ Positive(b.height)) => ReportsOverlap(a, b)

\* An update has centred the boxes: those of entities 1 and 2, of positive
\* size, meet at one corner and are not recorded, while entity 3 overlaps
\* entity 1 and is.
C22_Witness ==
  /\ last.op = "collisionUpdate"
  /\ Len(world) = 3
  /\ Collidable(world[2])
  /\ Positive(world[1].boundingBox.width)
  /\ world[1].boundingBox.x =
       Plus(world[2].boundingBox.x, world[2].boundingBox.width)
  /\ world[2].boundingBox.y =
       Plus(world[1].boundingBox.y, world[1].boundingBox.height)
  /\ canLayersCollide(world[1].layer, world[2].layer)
  /\ \A k \in 1..Len(collisionEvents) : collisionEvents[k].entityB # 2
  /\ \E k \in 1..Len(collisionEvents) :
       collisionEvents[k].entityA = 1 /\ collisionEvents[k].entityB = 3

\* The middle of the interval the two intervals [a, a + wa], [b, b + wb] share.
MidOverlap(a, wa, b, wb) ==
  Over(Plus(MathMax(a, b), MathMin(Plus(a, wa), Plus(b, wb))), Q(2))

\* -1 when A's least coordinate is below B's, else 1.
SignOf(a, b) == IF Less(a, b) THEN Q(-1) ELSE Q(1)

CollisionInfoRight(a, b) ==
  LET info == getCollisionInfo(1, 2, a, b)
      ox == OverlapX(a, b)
      oy == OverlapY(a, b)
  IN /\ info.hit
     /\ info.penetration = MathMin(ox, oy)
     /\ Positive(info.penetration)
     /\ Less(ox, oy) => info.normal = Vector2(SignOf(a.x, b.x), Q(0))
     /\ ~Less(ox, oy) => info.normal = Vector2(Q(0), SignOf(a.y, b.y))
     /\ info.contactPoint = Vector2(MidOverlap(a.x, a.width, b.x, b.width),
                                    MidOverlap(a.y, a.height, b.y, b.height))

\* C23: for two boxes that overlap (with positive extent on both axes)
\* getCollisionInfo returns the smaller of the two overlaps as the
\* penetration, which is positive; a unit normal on the axis of the smaller
\* overlap, the Y axis when they are equal, negative when A's least
\* coordinate on that axis is below B's and positive otherwise; and the
\* centre of the overlap rectangle as the contact point.
C23_CollisionInfo ==
  \A a \in Boxes, b \in Boxes :
    Positive(OverlapX(a, b)) /\ Positive(OverlapY(a, b))
      => CollisionInfoRight(a, b)

\* An update has recorded entities 1 and 2, whose boxes overlap by the same
\* amount on both axes, with a normal on the Y axis.
C23_Witness ==
  /\ last.op = "collisionUpdate"
  /\ Len(world) = 3
  /\ OverlapX(world[1].boundingBox, world[2].boundingBox)
       = OverlapY(world[1].boundingBox, world[2].boundingBox)
  /\ \E k \in 1..Len(collisionEvents) :
       /\ collisionEvents[k].entityA = 1 /\ collisionEvents[k].entityB = 2
       /\ collisionEvents[k].collision.normal.x = Q(0)
       /\ collisionEvents[k].collision.penetration
            = OverlapY(world[1].boundingBox, world[2].boundingBox)

\* The step is a call of CollisionSystem.update.
Updates == IsCall("collisionUpdate")

\* The events the step has handed to the global dispatcher, in order.
NewEvents == SubSeq(eventHistory', Len(eventHistory) + 1, Len(eventHistory'))

\* Entity i is one of the two entities of record x.
Involves(x, i) == x.entityA = world[i].id \/ x.entityB = world[i].id

Untouched(i) ==
  /\ world'[i].position = world[i].position
  /\ world'[i].velocity = world[i].velocity
  /\ world'[i].hasVelocity = world[i].hasVelocity

\* C24: every pair an update records is a 'trigger' when one of its two
\* colliders has isTrigger and a 'collision' otherwise; no pair is recorded
\* twice; the update emits one event per record, trigger:activated for a
\* trigger and collision:detected for a collision, about the same two
\* entities; and an entity whose records are all triggers keeps its position
\* and its velocity.
C24_TriggerOrCollision ==
  [][Updates =>
       /\ Len(NewEvents) = Len(collisionEvents')
       /\ \A k \in 1..Len(collisionEvents') :
            LET x == collisionEvents'[k]
                trigger == EntityOf(x.entityA).isTrigger
                             \/ EntityOf(x.entityB).isTrigger
            IN /\ x.type = IF trigger THEN "trigger" ELSE "collision"
               /\ NewEvents[k].type = IF trigger THEN "trigger:activated"
                                      ELSE "collision:detected"
               /\ NewEvents[k].entityA = x.entityA
               /\ NewEvents[k].entityB = x.entityB
               /\ \A j \in 1..Len(collisionEvents') :
                    (/\ collisionEvents'[j].entityA = x.entityA
                     /\ collisionEvents'[j].entityB = x.entityB) => j = k
       /\ \A i \in 1..Len(world) :
            (\A k \in 1..Len(collisionEvents') :
               Involves(collisionEvents'[k], i)
                 => collisionEvents'[k].type = "trigger")
              => Untouched(i)]_vars

\* The first update has run over a solid entity and a trigger that approach
\* each other: one trigger record, one trigger:activated event, and the first
\* entity is where it was.
C24_Witness ==
  /\ last.op = "collisionUpdate"
  /\ ncalls = 1
  /\ Len(world) = 2
  /\ ~world[1].isTrigger /\ world[2].isTrigger
  /\ ~world[1].isStatic /\ ~world[2].isStatic
  /\ world[1].hasVelocity /\ world[2].hasVelocity
  /\ world[1].velocity = At(10, 3)
  /\ world[1].position = At(0, 0)
  /\ world[2].position = At(5, 0)
  /\ Len(collisionEvents) = 1
  /\ collisionEvents[1].type = "trigger"
  /\ Len(eventHistory) = 1
  /\ eventHistory[1].type = "trigger:activated"

\* Entities i and j of the world are a pair the update has to record: both
\* have a Collider and a Transform, one's layer is in the other's list, and
\* their boxes, centred where the entities were when the update began,
\* overlap.
Colliding(i, j) ==
  /\ Collidable(world[i]) /\ Collidable(world[j])
  /\ Allows(world[i].layer, world[j].layer)
       \/ Allows(world[j].layer, world[i].layer)
  /\ checkAABBCollision(world'[i].boundingBox, world'[j].boundingBox)

\* C25: after an update the records are exactly the pairs of entities with
\* a Collider and a Transform that were layer-compatible and overlapping in
\* that update, each once, first entity before second, in the order of the
\* nested loops; so no record of an earlier update is left, and no entity
\* without a Collider or a Transform is in a record.
C25_RecordsOfThisUpdate ==
  [][Updates =>
       /\ \A k \in 1..Len(collisionEvents') :
            LET x == collisionEvents'[k]
            IN /\ x.entityA < x.entityB
               /\ x.entityA = x.collision.entityA
               /\ x.entityB = x.collision.entityB
               /\ Colliding(x.entityA, x.entityB)
       /\ \A i \in 1..Len(world), j \in 1..Len(world) :
            i < j /\ Colliding(i, j)
              => \E k \in 1..Len(collisionEvents') :
                   /\ collisionEvents'[k].entityA = i
                   /\ collisionEvents'[k].entityB = j
       /\ \A k \in 1..Len(collisionEvents'), l \in 1..Len(collisionEvents') :
            k < l
              => \/ collisionEvents'[k].entityA < collisionEvents'[l].entityA
                 \/ /\ collisionEvents'[k].entityA = collisionEvents'[l].entityA
                    /\ collisionEvents'[k].entityB < collisionEvents'[l].entityB
     ]_vars

\* A second update has run over three entities and left two records, of
\* entity 1 with entity 2 and then with entity 3, and the update before it
\* had records too.
C25_Witness ==
  /\ last.op = "collisionUpdate"
  /\ ncalls = 2
  /\ Len(world) = 3
  /\ Len(collisionEvents) = 2
  /\ collisionEvents[1].entityB = 2
  /\ collisionEvents[2].entityB = 3
  /\ Len(eventHistory) > Len(collisionEvents)

\* C26: an update changes neither the position nor the velocity of an
\* entity whose collider is static, whatever the masses, restitutions and
\* velocities, so a pair of two static colliders is left as it was.
C26_StaticNeverMoves ==
  [][Updates => \A i \in 1..Len(world) : world[i].isStatic => Untouched(i)]_vars

\* The first update has resolved the collision of a moving entity with a
\* static one that carries a velocity: the moving one has bounced and been
\* pushed back, the static one is as it was.
C26_Witness ==
  /\ last.op = "collisionUpdate"
  /\ ncalls = 1
  /\ Len(world) = 2
  /\ ~world[1].isStatic /\ world[2].isStatic
  /\ world[1].hasVelocity /\ world[2].hasVelocity
  /\ Len(collisionEvents) = 1
  /\ collisionEvents[1].type = "collision"
  /\ Less(world[1].velocity.x, Q(0))
  /\ world[1].velocity.y = Q(3)
  /\ Less(world[1].position.x, Q(0))
  /\ world[2].position = At(5, 0)
  /\ world[2].velocity = At(-5, 0)

\* The velocity resolvePhysicalCollision reads for an entity.
VelocityOf(e) == IF e.hasVelocity THEN e.velocity ELSE Zero2

Dot(u, v) == Plus(Times(u.x, v.x), Times(u.y, v.y))

\* The collision of entities 1 and 2 as the update finds it.
Contact ==
  getCollisionInfo(1, 2, world'[1].boundingBox, world'[2].boundingBox)

\* The velocity of entity 1 relative to entity 2, along the normal, when
\* the update begins.
Closing ==
  Dot(Vector2(Minus(VelocityOf(world[1]).x, VelocityOf(world[2]).x),
              Minus(VelocityOf(world[1]).y, VelocityOf(world[2]).y)),
      Contact.normal)

\* The update is over two entities and finds them in a solid collision.
SolidPair ==
  /\ Updates
  /\ Len(world) = 2
  /\ Colliding(1, 2)
  /\ ~world[1].isTrigger /\ ~world[2].isTrigger

\* C27: when two colliding solid entities are moving apart, the relative
\* velocity along the normal being positive, the update leaves the
\* velocities and the positions of both as they were, and still records the
\* collision and emits collision:detected.
C27_SeparatingUntouched ==
  [][SolidPair /\ Positive(Closing) =>
       /\ Untouched(1) /\ Untouched(2)
       /\ Len(collisionEvents') = 1
       /\ collisionEvents'[1].type = "collision"
       /\ Len(NewEvents) = 1
       /\ NewEvents[1].type = "collision:detected"]_vars

\* The first update has found two movable entities overlapping, the left
\* one moving left faster than the right one: both are as they were.
C27_Witness ==
  /\ last.op = "collisionUpdate"
  /\ ncalls = 1
  /\ Len(world) = 2
  /\ ~world[1].isStatic /\ ~world[2].isStatic
  /\ world[1].hasVelocity /\ world[2].hasVelocity
  /\ world[1].position = At(0, 0) /\ world[2].position = At(5, 0)
  /\ world[1].velocity = At(-10, 0) /\ world[2].velocity = At(-5, 0)
  /\ Len(collisionEvents) = 1
  /\ collisionEvents[1].type = "collision"

\* How far the update has moved entity i along the normal of the contact.
Displaced(i) ==
  Dot(Vector2(Minus(world'[i].position.x, world[i].position.x),
              Minus(world'[i].position.y, world[i].position.y)),
      Contact.normal)

\* The box of entity e, centred on where e is.
Recentred(e) ==
  updateBoundingBox(e.boundingBox, e.position,
                    Vector2(e.boundingBox.width, e.boundingBox.height))

\* The overlap of the boxes of entities 1 and 2, recomputed after the
\* update, on the axis of the contact's normal.
OverlapLeft ==
  IF Contact.normal.y = Q(0)
  THEN OverlapX(Recentred(world'[1]), Recentred(world'[2]))
  ELSE OverlapY(Recentred(world'[1]), Recentred(world'[2]))

\* C28: when an update resolves a solid collision that is not separating and
\* not between two static colliders, entity 1 has moved along the normal and
\* entity 2 against it by amounts that add up to the penetration, so the
\* boxes recomputed from the new positions no longer overlap on the axis of
\* the normal.
C28_SeparationRemovesOverlap ==
  [][(/\ SolidPair
      /\ ~Positive(Closing)
      /\ ~(world[1].isStatic /\ world[2].isStatic))
       => /\ Minus(Displaced(1), Displaced(2)) = Contact.penetration
          /\ ~Positive(OverlapLeft)]_vars

\* The normal of the contact as entity i sees it: pointing from the other
\* entity to i.
NormalFor(i) ==
  IF i = 1 THEN Contact.normal
  ELSE Vector2(Neg(Contact.normal.x), Neg(Contact.normal.y))

\* The vector along the contact surface.
Tangent == Vector2(Contact.normal.y, Contact.normal.x)

\* The update finds movable entity i, which has a velocity, moving into
\* static entity j.
MovesInto(i, j) ==
  /\ SolidPair
  /\ ~world[i].isStatic /\ world[j].isStatic
  /\ world[i].hasVelocity
  /\ Less(Dot(world[i].velocity, NormalFor(i)), Q(0))

\* Entity i leaves the update with its velocity along the normal turned
\* round and scaled by the smaller restitution, and the rest of it kept.
Bounced(i) ==
  /\ Dot(world'[i].velocity, NormalFor(i))
       = Neg(Times(MathMin(world[1].restitution, world[2].restitution),
                   Dot(world[i].velocity, NormalFor(i))))
  /\ Dot(world'[i].velocity, Tangent) = Dot(world[i].velocity, Tangent)

\* C29 as stated: a movable entity with a velocity that moves into a static
\* collider leaves the update with its velocity along the normal replaced by
\* minus the smaller restitution times what it was, whatever its mass, and
\* with its tangential velocity unchanged.
C29_BounceOffAnyStatic ==
  [][\A i \in {1, 2} : MovesInto(i, 3 - i) => Bounced(i)]_vars

\* C29, amended: the same, for a static collider that has no velocity along
\* the normal (no Velocity component, or one that is zero along the normal).
C29_BounceOffStatic ==
  [][\A i \in {1, 2} :
       (/\ MovesInto(i, 3 - i)
        /\ Dot(VelocityOf(world[3 - i]), Contact.normal) = Q(0))
         => Bounced(i)]_vars

\* The first update has run over an entity of mass 2 that moved at (10, 3)
\* into a static collider on its right, restitutions 1 and 1/2: it now moves
\* at (-5, 3).
C29_Witness ==
  /\ last.op = "collisionUpdate"
  /\ ncalls = 1
  /\ Len(world) = 2
  /\ ~world[1].isStatic /\ world[2].isStatic
  /\ ~world[2].isTrigger
  /\ world[1].hasVelocity /\ ~world[2].hasVelocity
  /\ world[2].position = At(5, 0)
  /\ world[1].mass = Q(2)
  /\ world[1].restitution = Q(1) /\ world[2].restitution = <<1, 2>>
  /\ world[1].velocity = At(-5, 3)
  /\ Len(collisionEvents) = 1

\* The box of width and height as they are now whose centre is where
\* entity e is now.
CentredOn(e) ==
  LET width == e.boundingBox.width
      height == e.boundingBox.height
  IN [x |-> Frac(2 * e.position.x[1] * width[2] - width[1] * e.position.x[2],
                 2 * e.position.x[2] * width[2]),
      y |-> Frac(2 * e.position.y[1] * height[2] - height[1] * e.position.y[2],
                 2 * e.position.y[2] * height[2]),
      width |-> width, height |-> height]

\* C30: an update leaves the box of every entity with a Collider and a
\* Transform centred on the position the entity had when the update began,
\* width and height kept, and decides every pair by those boxes: a pair is
\* recorded exactly when it is layer-compatible and the centred boxes
\* overlap, wherever the boxes were before.
C30_BoxesRecentred ==
  [][Updates =>
       /\ \A i \in 1..Len(world) :
            Collidable(world[i]) => world'[i].boundingBox = CentredOn(world[i])
       /\ \A i \in 1..Len(world), j \in 1..Len(world) :
            i < j /\ Collidable(world[i]) /\ Collidable(world[j])
              => ((\E k \in 1..Len(collisionEvents') :
                     /\ collisionEvents'[k].entityA = i
                     /\ collisionEvents'[k].entityB = j)
                  <=> /\ canLayersCollide(world[i].layer, world[j].layer)
                      /\ checkAABBCollision(CentredOn(world[i]),
                                            CentredOn(world[j])))]_vars

\* Entity 1, a trigger five wide, was moved to (20, 20) and then an update
\* ran: its box is centred there and it is recorded with entity 3, which is
\* there too.
C30_Witness ==
  /\ last.op = "collisionUpdate"
  /\ ncalls = 2
  /\ Len(world) = 3
  /\ world[1].isTrigger
  /\ world[1].position = At(20, 20)
  /\ world[1].boundingBox = BoundingBox(<<35, 2>>, Q(15), Q(5), Q(10))
  /\ Len(eventHistory) = 1
  /\ \E k \in 1..Len(collisionEvents) :
       collisionEvents[k].entityA = 1 /\ collisionEvents[k].entityB = 3

\* ------------------------------------------ claims on calls made in flight
After(arr, i) == SubSeq(arr, i + 1, Len(arr))

\* The registrations the innermost emit in progress goes on to invoke after
\* the running listener, if nothing changes the registry any more.
ToCome(st) ==
  LET fr == Top(st)
  IN  IF fr.phase = 1
      THEN Regs(After(listeners[fr.type], fr.idx))
             \o Regs(oneTimeListeners[fr.type]) \o Regs(globalListeners)
      ELSE IF fr.phase = 2
      THEN Regs(After(fr.list, fr.idx)) \o Regs(globalListeners)
      ELSE Regs(After(globalListeners, fr.idx))

ToComeNext ==
  LET fr == Top(stack')
  IN  IF fr.phase = 1
      THEN Regs(After(listeners'[fr.type], fr.idx))
             \o Regs(oneTimeListeners'[fr.type]) \o Regs(globalListeners')
      ELSE IF fr.phase = 2
      THEN Regs(After(fr.list, fr.idx)) \o Regs(globalListeners')
      ELSE Regs(After(globalListeners', fr.idx))

Range(seq) == {seq[k] : k \in 1..Len(seq)}

\* The running listener is registration h, specific or global, and the step
\* is its call of its own unsubscribe().
UnsubscribesItself(h) ==
  /\ IsCall("unsubscribe")
  /\ last'.id = h
  /\ stack # <<>>
  /\ Top(stack).log[Len(Top(stack).log)] = h
  /\ Kind(h) \in {"on", "onAll"}

\* C36 as stated: when the running specific or global listener calls its own
\* unsubscribe(), every other listener registered before the emit began
\* that the emit had yet to invoke is still to be invoked by it.
C36_SelfUnsubscribeSkipsNone ==
  [][\A h \in 1..Len(subscriptions) :
       UnsubscribesItself(h) =>
         \A r \in Range(ToCome(stack)) :
           r # h /\ r <= Top(stack).n0 => r \in Range(ToComeNext)]_vars

\* The step is a call of on(T) made from a specific listener that an emit
\* of an event of type T has invoked.
OnInFlight ==
  /\ IsCall("on")
  /\ stack # <<>>
  /\ Top(stack).type = last'.arg.type
  /\ Top(stack).phase = 1

\* The new listener is the last of those the emit in progress has yet to
\* invoke in its loop over the specific listeners.
QueuedLast ==
  /\ Len(stack') = Len(stack)
  /\ Regs(After(listeners'[Top(stack).type], Top(stack).idx))
       = Append(Regs(After(listeners[Top(stack).type], Top(stack).idx)),
                last'.id)

\* When a specific listener returns or throws with a specific listener
\* standing after it, the same emit invokes that one next.
LoopGoesOn ==
  (/\ last'.op \in {"return", "throw"}
   /\ stack # <<>>
   /\ Top(stack).phase = 1
   /\ Top(stack).idx < Len(listeners[Top(stack).type]))
    => /\ Len(stack') = Len(stack)
       /\ InvokedNow(listeners[Top(stack).type][Top(stack).idx + 1].reg)

Silent == eventHistory' = eventHistory /\ stack' = stack

\* The step has emitted exactly ev, and where a listener is registered the
\* emit has invoked the first one, which is running in the state the step
\* leads to.
Announces(ev) ==
  /\ EmittedOnly(ev)
  /\ globalListeners # <<>> =>
       /\ Len(stack') = Len(stack) + 1
       /\ Top(stack').type = ev.type

\* C38: a call on the store that changes it emits exactly one event, the one
\* that reports the change, and the change is made when the event's first
\* listener runs: the created entity is there, the destroyed one is gone
\* (and nothing but entity:destroyed is emitted for it and its components),
\* the added component is there and the removed one is gone.  A call that
\* fails or has nothing to remove emits nothing.
C38_EventAfterChange ==
  [][/\ IsCall("createEntity") =>
          IF Failed("") THEN /\ Announces(EntityCreatedEvent(last'.id))
                             /\ last'.id \in DOMAIN entities'
                        ELSE Silent
     /\ IsCall("destroyEntity") =>
          IF last'.id \in Live
          THEN /\ Announces(EntityDestroyedEvent(last'.id))
               /\ last'.id \notin DOMAIN entities'
          ELSE Silent
     /\ IsCall("addComponent") =>
          IF Failed("")
          THEN /\ Announces(ComponentAddedEvent(last'.id, last'.arg))
               /\ last'.arg.type \in DOMAIN entities'[last'.id]
          ELSE Silent
     /\ IsCall("removeComponent") =>
          IF Failed("") /\ last'.arg.type \in DOMAIN entities[last'.id]
          THEN /\ Announces(ComponentRemovedEvent(last'.id, last'.arg.type))
               /\ last'.arg.type \notin DOMAIN entities'[last'.id]
          ELSE Silent]_vars

\* destroyEntity has removed an entity that had a component, and the
\* listener of its entity:destroyed event is running.
C38_Witness ==
  /\ last.op = "destroyEntity"
  /\ last.id \notin Live
  /\ Len(stack) = 1
  /\ Top(stack).type = "entity:destroyed"
  /\ Len(eventHistory) = 3
  /\ eventHistory[2] = ComponentAddedEvent(last.id, [type |-> "Transform", val |-> "p"])
  /\ eventHistory[3] = EntityDestroyedEvent(last.id)

\* ------------------------------------------------ calls made during a tick
\* An engine that was given an entity and the systems a1 and b and was then
\* started, from there on: its timer fires, and the updates of its systems
\* and the listeners of its events stop and start it, remove systems, and
\* create and destroy entities while the tick is in progress.
FlightInit ==
  /\ InitCollision /\ InitServer
  /\ entities = [id \in {1} |-> << >>]
  /\ nextEntityId = 2
  /\ maxEntities = DefaultMaxEntities
  /\ createdIds = <<1>>
  /\ cleared = FALSE
  /\ destroyed = {}
  /\ listeners = [t \in EventTypes |-> <<>>]
  /\ oneTimeListeners = [t \in EventTypes |-> <<>>]
  /\ globalListeners = <<>>
  /\ eventHistory = <<EntityCreatedEvent(1), SystemAddedEvent("physics"),
                      SystemAddedEvent("render"), EngineStartedEvent>>
  /\ subscriptions = <<>>
  /\ stack = <<>>
  /\ fired = {}
  /\ unsubscribed = {}
  /\ removed = {}
  /\ last = Call("start", 0, NoArg, "")
  /\ ncalls = 0
  /\ systems = <<"a1", "b">>
  /\ intervalId = 1
  /\ timers = {1}
  /\ lastFrameTime = 0
  /\ deltaTime = 0
  /\ isRunning = TRUE
  /\ isPaused = FALSE
  /\ clock = 0
  /\ tick = NoTick

FlightNext ==
  \/ /\ Budget(MaxFlightCalls) /\ TimerFires
     /\ UNCHANGED <<collisionVars, serverVars>>
  \/ /\ Budget(MaxFlightCalls) /\ CanCall /\ Stop
     /\ UNCHANGED <<collisionVars, serverVars>>
  \/ /\ Budget(MaxFlightCalls) /\ CanCall /\ Start
     /\ UNCHANGED <<collisionVars, serverVars>>
  \/ /\ Budget(MaxFlightCalls) /\ CanCall /\ \E n \in SystemNames : RemoveSystem(n)
     /\ UNCHANGED <<collisionVars, serverVars>>
  \/ /\ Budget(MaxFlightCalls) /\ CanCall /\ CreateEntity
     /\ UNCHANGED <<engineVars, collisionVars, serverVars>>
  \/ /\ Budget(MaxFlightCalls) /\ CanCall /\ \E id \in Ids : DestroyEntity(id)
     /\ UNCHANGED <<engineVars, collisionVars, serverVars>>
  \/ /\ Budget(MaxFlightCalls) /\ CanCall /\ OnAll("f")
     /\ UNCHANGED <<engineVars, collisionVars, serverVars>>
  \/ CallUpdate /\ UNCHANGED <<ncalls, collisionVars, serverVars>>
  \/ UpdateReturns /\ UNCHANGED <<ncalls, collisionVars, serverVars>>
  \/ Advance /\ UNCHANGED <<ncalls, collisionVars, serverVars>>
  \/ TickReturns /\ UNCHANGED <<ncalls, collisionVars, serverVars>>
  \/ Return /\ UNCHANGED <<ncalls, engineVars, collisionVars, serverVars>>

FlightSpec == FlightInit /\ [][FlightNext]_vars

\* The tick in progress takes its next step.
TickStep ==
  /\ CallUpdate \/ UpdateReturns \/ Advance \/ TickReturns
  /\ UNCHANGED <<ncalls, collisionVars, serverVars>>

\* engine:stopped is in the history and no engine:started follows it.
StoppedLast ==
  \E i \in 1..Len(eventHistory) :
    /\ eventHistory[i] = EngineStoppedEvent
    /\ \A j \in (i + 1)..Len(eventHistory) :
         eventHistory[j].type # "engine:started"

\* C34: stop() called during a tick leaves the tick as it is.  A tick that
\* goes on in a stopped engine is never held up: whenever no listener runs
\* its next step can be taken, it updates the systems of its array in order,
\* and it emits engine:tick after them, later than engine:stopped.  The
\* timer fires only in a running engine, so that no tick begins between
\* stop() and the next start().
C34_StopLeavesTickInFlight ==
  /\ [](InTick /\ ~isRunning /\ stack = <<>> => ENABLED TickStep)
  /\ [][/\ IsCall("stop") /\ InTick => tick' = tick /\ ~isRunning'
        /\ InTick' /\ ~isRunning' =>
             tick'.log = SubSeq(Expected(tick'.arr), 1, Len(tick'.log))
        /\ tick'.stage = "tick" /\ tick.stage # "tick" /\ ~isRunning =>
             /\ tick'.log = Expected(tick.arr)
             /\ EmittedOnly(EngineTickEvent(deltaTime, Cardinality(entityMap)))
             /\ StoppedLast
        /\ IsCall("tick") => isRunning /\ ~InTick]_vars

\* stop() was called from the update of the first of two systems, and the
\* tick has gone on to the end: the second system was updated too.
C34_Witness ==
  /\ last.op = "ticked"
  /\ ~isRunning
  /\ tick.log = Expected(<<"a1", "b">>)
  /\ \E i \in 1..(Len(eventHistory) - 1) :
       /\ eventHistory[i] = EngineStoppedEvent
       /\ eventHistory[i + 1].type = "system:update:end"
       /\ eventHistory[i + 1].componentType = "physics"
  /\ LastEvent(eventHistory).type = "engine:tick"

\* C40: removeSystem called during a tick leaves the array that the tick
\* iterates, and the place the tick is at, as they are, while this.systems
\* loses the systems of that name.  The array of a tick is this.systems as
\* it was when the tick began and stays so to the end of the tick, when the
\* tick has updated every system of it in order, a removed one included; the
\* tick that begins next iterates this.systems without the removed systems.
C40_RemovedSystemStillUpdated ==
  [][/\ \A n \in SystemNames :
          IsCall("removeSystem") /\ last'.arg.type = n /\ InTick =>
            /\ tick'.arr = tick.arr
            /\ tick'.idx = tick.idx /\ tick'.stage = tick.stage
            /\ tick'.log = tick.log
            /\ systems' = SelectSeq(systems, LAMBDA x : SystemName(x) # n)
     /\ InTick /\ InTick' => tick'.arr = tick.arr
     /\ last'.op = "ticked" =>
          /\ Len(tick.arr) = tick.n0
          /\ tick.log = Expected(tick.arr)
     /\ IsCall("tick") => tick'.arr = systems /\ tick'.n0 = Len(systems)]_vars

\* removeSystem("render") was called before the turn of system b in a tick
\* over a1 and b, and the tick has ended after updating both.
C40_Witness ==
  /\ last.op = "ticked"
  /\ systems = <<"a1">>
  /\ tick.arr = <<"a1", "b">>
  /\ tick.log = Expected(tick.arr)
  /\ \E i \in 1..Len(eventHistory) :
       /\ eventHistory[i] = SystemRemovedEvent("render")
       /\ \E j \in (i + 1)..Len(eventHistory) :
            /\ eventHistory[j].type = "system:update:start"
            /\ eventHistory[j].componentType = "render"

\* The step emits one of the three events of a tick.
TickEmits ==
  /\ last'.op \in {"tick", "updated", "next"}
  /\ tick'.log # tick.log

\* C35: the tick fills its entity map from the store when it begins, before
\* the first system, and holds that one map to its end, whatever is created
\* or destroyed meanwhile: an entity created during the tick is not in it,
\* an entity destroyed during the tick stays in it while it is gone from the
\* store.  Every system:update:start, system:update:end and engine:tick
\* event of the tick reports the size of that map as entityCount.
C35_OneSnapshotPerTick ==
  [][/\ IsCall("tick") => tick'.entityMap = Live
     /\ InTick /\ InTick' => tick'.entityMap = tick.entityMap
     /\ TickEmits =>
          /\ Len(eventHistory') = Len(eventHistory) + 1
          /\ LastEvent(eventHistory').entityId = Cardinality(tick'.entityMap)
     /\ IsCall("createEntity") /\ Failed("") /\ InTick =>
          /\ last'.id \notin tick'.entityMap
          /\ last'.id \in DOMAIN entities'
     /\ \A id \in tick.entityMap :
          IsCall("destroyEntity") /\ last'.id = id /\ InTick =>
            /\ id \in tick'.entityMap
            /\ id \notin DOMAIN entities']_vars

\* During the update of the first system entity 1 was destroyed and entity 2
\* created; the second system is being updated with the map that holds
\* entity 1 alone, and its system:update:start event reported one entity.
C35_Witness ==
  /\ tick.stage = "update"
  /\ tick.idx = 2
  /\ tick.entityMap = {1}
  /\ Live = {2}
  /\ LastEvent(eventHistory) =
       SystemUpdateStartEvent("render", deltaTime, 1)

\* The pairs the nested loops of update record when each is decided by the
\* boxes centred where the entities of w are, as nothing but [A, B] lists.
Decided(p, w) ==
  /\ canLayersCollide(w[p[1]].layer, w[p[2]].layer)
  /\ checkAABBCollision(CentredOn(w[p[1]]), CentredOn(w[p[2]]))

RECURSIVE DetectedIn(_, _, _)
DetectedIn(pairs, k, w) ==
  IF k > Len(pairs) THEN <<>>
  ELSE (IF Decided(pairs[k], w) THEN <<pairs[k]>> ELSE <<>>)
         \o DetectedIn(pairs, k + 1, w)

RecordedPairs(events) ==
  [k \in 1..Len(events) |-> <<events[k].entityA, events[k].entityB>>]

\* Entity i is not where its box is centred.
BoxLeftBehind(w, i) == w[i].boundingBox # CentredOn(w[i])

\* C37: the pairs an update records, in order, are those that the boxes
\* centred on the positions at the start of the update decide, and every
\* record reports the overlap of those boxes; an entity that a separation of
\* the update has moved leaves the update with its box where it was put at
\* the start, not where the entity now is.
C37_BoxesComputedOnce ==
  [][Updates =>
       /\ RecordedPairs(collisionEvents')
            = DetectedIn(PairsFrom(collidableEntities(world, 1), 1, 2), 1, world)
       /\ \A k \in 1..Len(collisionEvents') :
            LET x == collisionEvents'[k]
            IN x.collision
                 = getCollisionInfo(x.entityA, x.entityB,
                                    CentredOn(world[x.entityA]),
                                    CentredOn(world[x.entityB]))
       /\ \A i \in 1..Len(world) :
            Collidable(world[i]) /\ world'[i].position # world[i].position
              => /\ world'[i].boundingBox = CentredOn(world[i])
                 /\ BoxLeftBehind(world', i)]_vars

\* An update has pushed entity 2 out of entity 1 and onto entity 3: where
\* they now are, 2 and 3 are layer-compatible and overlap, but the update
\* decided the pair by the boxes of its start and did not record it.
C37_Witness ==
  /\ last.op = "collisionUpdate"
  /\ Len(world) = 3
  /\ \A i \in 1..3 : Collidable(world[i])
  /\ BoxLeftBehind(world, 2)
  /\ Decided(<<2, 3>>, world)
  /\ RecordedPairs(collisionEvents) = <<(<<1, 2>>)>>

\* --------------------------------------------------------------- the server
\* A GameServer and its connections.  What the server sends back
\* (playerJoined, playerLeft) changes nothing that it keeps and is left
\* out.  So are the three AI entities that the constructor makes and the
\* engine it starts: handling a message reads neither.  The Input component of a player is in the engine's store with its
\* keys as value; of the other five components of a player only the
\* presence is kept.
Keys(up, down, left, right, space) ==
  [up |-> up, down |-> down, left |-> left, right |-> right, space |-> space]

\* createInput().keys
createInput ==
  [up |-> FALSE, down |-> FALSE, left |-> FALSE, right |-> FALSE,
   space |-> FALSE, enter |-> FALSE, escape |-> FALSE]

PlayerComponentTypes ==
  <<"Transform", "Velocity", "Input", "PlayerController", "Renderable",
    "Collider">>

PlayerComponent(k) ==
  [type |-> PlayerComponentTypes[k],
   val |-> IF PlayerComponentTypes[k] = "Input" THEN createInput ELSE "p"]

ClientData(playerId, entityId, lastInputTime) ==
  [playerId |-> playerId, entityId |-> entityId,
   lastInputTime |-> lastInputTime]

\* An input message of a client
InputMessage(playerId, keys, timestamp) ==
  [type |-> "input", playerId |-> playerId, keys |-> keys,
   timestamp |-> timestamp]

\* GameServer.handlePlayerJoin, createPlayerEntity included.  Nothing
\* listens on the global dispatcher, so that each emit of the store only
\* adds to the history.
handlePlayerJoin(ws, playerId) ==
  /\ stack = <<>>
  /\ globalListeners = <<>>
  /\ ~AtCapacity
  /\ entities' =
       MapSet(entities, NewId,
              [t \in {PlayerComponentTypes[k] : k \in 1..6} |->
                 PlayerComponent(CHOOSE k \in 1..6 : PlayerComponentTypes[k] = t)])
  /\ nextEntityId' = nextEntityId + 1
  /\ createdIds' = Append(createdIds, NewId)
  /\ eventHistory' =
       EmitAll(eventHistory,
               <<EntityCreatedEvent(NewId)>>
                 \o [k \in 1..6 |-> ComponentAddedEvent(NewId, PlayerComponent(k))],
               1)
  /\ clients' = MapSet(clients, ws, ClientData(playerId, NewId, 0))
  /\ last' = Call("join", ws, NoArg, "")
  /\ UNCHANGED <<maxEntities, cleared, destroyed, accepted>>
  /\ UNCHANGED <<registry, subscriptions, stack, busGhost>>

\* The test that drops an input: data.timestamp <= clientData.lastInputTime
Spam(data, clientData) == data.timestamp <= clientData.lastInputTime

\* GameServer.handlePlayerInput
handlePlayerInput(ws, data) ==
  /\ stack = <<>>
  /\ IF ws \notin DOMAIN clients
     THEN UNCHANGED <<clients, accepted, entities>>
     ELSE IF Spam(data, clients[ws])
     THEN UNCHANGED <<clients, accepted, entities>>
     ELSE /\ clients' = [clients EXCEPT ![ws].lastInputTime = data.timestamp]
          /\ IF hasComponent(clients[ws].entityId, "Input")
             THEN /\ entities' =
                       [entities EXCEPT ![clients[ws].entityId]["Input"].val =
                          [@ EXCEPT !.up = data.keys.up,
                                    !.down = data.keys.down,
                                    !.left = data.keys.left,
                                    !.right = data.keys.right,
                                    !.space = data.keys.space]]
                  /\ accepted' = [accepted EXCEPT ![ws] = Append(@, data)]
             ELSE UNCHANGED <<entities, accepted>>
  /\ last' = Call("input", ws, [type |-> "input", val |-> data], "")
  /\ UNCHANGED <<nextEntityId, maxEntities, storeGhost, busVars, busGhost>>

\* GameServer.handlePlayerLeave
handlePlayerLeave(ws) ==
  /\ stack = <<>>
  /\ globalListeners = <<>>
  /\ IF ws \in DOMAIN clients
     THEN /\ IF clients[ws].entityId \in Live
             THEN /\ entities' = MapDelete(entities, clients[ws].entityId)
                  /\ destroyed' = destroyed \cup {clients[ws].entityId}
                  /\ eventHistory' =
                       addToHistory(eventHistory,
                                    EntityDestroyedEvent(clients[ws].entityId))
             ELSE UNCHANGED <<entities, destroyed, eventHistory>>
          /\ clients' = MapDelete(clients, ws)
     ELSE UNCHANGED <<entities, destroyed, eventHistory, clients>>
  /\ last' = Call("leave", ws, NoArg, "")
  /\ UNCHANGED <<nextEntityId, maxEntities, createdIds, cleared, accepted>>
  /\ UNCHANGED <<registry, subscriptions, stack, busGhost>>

\* The messages of clients: one player name, three sets of keys, and
\* timestamps from 0 on.
KeySets ==
  {Keys(FALSE, FALSE, FALSE, FALSE, FALSE), Keys(TRUE, FALSE, FALSE, FALSE, FALSE),
   Keys(FALSE, FALSE, TRUE, FALSE, TRUE)}

Stamps == 0..MaxStamp

ServerNext ==
  \/ /\ Budget(MaxServerCalls)
     /\ \E ws \in Sockets : handlePlayerJoin(ws, "p")
     /\ UNCHANGED <<engineVars, collisionVars>>
  \/ /\ Budget(MaxServerCalls)
     /\ \E ws \in Sockets, keys \in KeySets, t \in Stamps :
          handlePlayerInput(ws, InputMessage("p", keys, t))
     /\ UNCHANGED <<engineVars, collisionVars>>
  \/ /\ Budget(MaxServerCalls)
     /\ \E ws \in Sockets : handlePlayerLeave(ws)
     /\ UNCHANGED <<engineVars, collisionVars>>

ServerSpec == BusInit /\ [][ServerNext]_vars

\* ------------------------------------------------------ claims on the server
\* The step handles an input message on connection ws.
Inputs(ws) == IsCall("input") /\ last'.id = ws

\* The step has applied the message it handled on connection ws.
Applied(ws) == accepted'[ws] = Append(accepted[ws], last'.arg.val)

\* The message an input was last accepted from on connection ws.
LastAccepted(ws) == accepted[ws][Len(accepted[ws])]

\* The five keys that a message carries, as the Input component of the
\* player on connection ws holds them.
InputKeys(ws) ==
  LET k == getComponent(clients[ws].entityId, "Input").val
  IN  Keys(k.up, k.down, k.left, k.right, k.space)

\* On every connection with accepted input, the Input component of its
\* player holds the keys of the message accepted last, and no accepted
\* message of the connection has a greater timestamp than that one.
KeysOfLatest ==
  \A ws \in DOMAIN clients :
    accepted[ws] # <<>> /\ hasComponent(clients[ws].entityId, "Input")
      => /\ InputKeys(ws) = LastAccepted(ws).keys
         /\ \A k \in 1..Len(accepted[ws]) :
              accepted[ws][k].timestamp <= LastAccepted(ws).timestamp

\* C32 as stated: on every connection, a message is applied only if its
\* timestamp is greater than that of the message last accepted on the
\* connection, and a message that is not applied changes nothing; the
\* lastInputTime of a connection never goes down; and the keys of the
\* player's Input component are those of the message last accepted on the
\* connection, which has the greatest timestamp of all accepted there.
C32_StaleInputDropped ==
  [][/\ \A ws \in Sockets :
          /\ Inputs(ws) /\ Applied(ws) /\ accepted[ws] # <<>>
               => last'.arg.val.timestamp > LastAccepted(ws).timestamp
          /\ Inputs(ws) /\ ~Applied(ws)
               => UNCHANGED <<clients, entities, accepted>>
          /\ ws \in DOMAIN clients /\ ws \in DOMAIN clients'
               => clients'[ws].lastInputTime >= clients[ws].lastInputTime
     /\ KeysOfLatest']_vars

\* ----------------------------------------------------------- the movement
\* Math.sqrt of a fraction that is the square of a fraction.  The
\* velocities that the model clamps are chosen with such a speed; the
\* rounding of a double is left out as in the collision code.
Root(n) == CHOOSE r \in 0..n : r * r = n

MathSqrt(a) == Frac(Root(a[1]), Root(a[2]))

\* An entity as MovementSystem.update reads it; deltaTimeS is its deltaTime
\* parameter, in seconds.  maxSpeed is read only when
\* hasMaxSpeed (it is not undefined).  Bookkeeping: start is the position
\* the run began with and elapsed the sum of the deltaTime of its updates.
Mover(hasTransform, position, hasVelocity, velocity, hasMaxSpeed, maxSpeed) ==
  [hasTransform |-> hasTransform, position |-> position,
   hasVelocity |-> hasVelocity, velocity |-> velocity,
   hasMaxSpeed |-> hasMaxSpeed, maxSpeed |-> maxSpeed,
   start |-> position, elapsed |-> Q(0)]

\* velocity.velocity after the maxSpeed constraint
ClampSpeed(e) ==
  LET currentSpeed == MathSqrt(Plus(Times(e.velocity.x, e.velocity.x),
                                    Times(e.velocity.y, e.velocity.y)))
      scale == Over(e.maxSpeed, currentSpeed)
  IN IF e.hasMaxSpeed /\ Less(e.maxSpeed, currentSpeed)
     THEN Vector2(Times(e.velocity.x, scale), Times(e.velocity.y, scale))
     ELSE e.velocity

\* transform.position after the velocity is applied, were the constraint
\* applied before it
IntegrateClamped(e, deltaTimeS) ==
  Vector2(Plus(e.position.x, Times(ClampSpeed(e).x, deltaTimeS)),
          Plus(e.position.y, Times(ClampSpeed(e).y, deltaTimeS)))

\* transform.position after the velocity is applied
Integrate(e, deltaTimeS) ==
  Vector2(Plus(e.position.x, Times(e.velocity.x, deltaTimeS)),
          Plus(e.position.y, Times(e.velocity.y, deltaTimeS)))

\* MovementSystem.update
MovementSystemUpdate(deltaTimeS, entityList) ==
  [i \in 1..Len(entityList) |->
     LET e == entityList[i]
     IN IF ~e.hasTransform \/ ~e.hasVelocity THEN e
        ELSE [e EXCEPT !.position = Integrate(e, deltaTimeS),
                       !.velocity = ClampSpeed(e)]]

\* The host, or a tick, calls update of the movement system.
MovementUpdate(deltaTimeS) ==
  /\ stack = <<>>
  /\ world' = [i \in 1..Len(world) |->
                 [MovementSystemUpdate(deltaTimeS, world)[i]
                    EXCEPT !.elapsed = Plus(@, deltaTimeS)]]
  /\ last' = Call("movementUpdate", 0, [type |-> "deltaTime", val |-> deltaTimeS], "")
  /\ UNCHANGED <<busVars, busGhost, storeVars, storeGhost, engineVars>>
  /\ UNCHANGED <<collisionEvents, serverVars>>

\* Two entities: each with or without a Transform and a Velocity; a
\* velocity with a maxSpeed has a whole speed.
FreeVelocities == {At(10, 5), At(0, 0), At(-3, 4)}
CappedVelocities == {At(6, 8), At(-3, 4), At(0, 0)}
MaxSpeeds == {Q(5), Q(2), Q(0)}
Origins == {At(0, 0), At(100, 100)}
Movers ==
  {Mover(ht, p, hv, v, FALSE, Q(0)) :
     ht \in BOOLEAN, p \in Origins, hv \in BOOLEAN, v \in FreeVelocities}
  \cup {Mover(TRUE, At(0, 0), TRUE, v, TRUE, m) :
          v \in CappedVelocities, m \in MaxSpeeds}
DeltaTimes == {Q(1), <<1, 2>>, Q(0)}

MovementInit ==
  /\ InitBus /\ InitEngine /\ InitStore(DefaultMaxEntities) /\ InitServer
  /\ collisionEvents = <<>>
  /\ world \in {<<a, b>> : a \in Movers, b \in {Mover(TRUE, At(0, 0), TRUE, At(10, 5), FALSE, Q(0)), Mover(TRUE, At(0, 0), FALSE, At(0, 0), FALSE, Q(0))}}

MovementNext ==
  Budget(MaxMovementCalls) /\ \E dt \in DeltaTimes : MovementUpdate(dt)

MovementSpec == MovementInit /\ [][MovementNext]_vars

\* ------------------------------------------------- claims on the movement
Scaled(v, t) == Vector2(Times(v.x, t), Times(v.y, t))

Sum(p, q) == Vector2(Plus(p.x, q.x), Plus(p.y, q.y))

\* Entity e has a Transform and a Velocity.
Moving(e) == e.hasTransform /\ e.hasVelocity

\* The square of the speed of velocity v.
SpeedSquared(v) == Plus(Times(v.x, v.x), Times(v.y, v.y))

\* C31: an update with deltaTime dt puts every entity that has a Transform
\* and a Velocity at its position plus dt times the velocity it had when the
\* update began, whether or not its speed is then cut to maxSpeed, and
\* changes nothing of an entity that lacks either; the velocity is changed
\* only by the cut, to a speed of maxSpeed.  So the moves add up: an entity
\* without a maxSpeed is at its first position plus its velocity times the
\* sum of all dt so far.
C31_PositionIntegrated ==
  /\ [](\A i \in 1..Len(world) :
          LET e == world[i]
          IN Moving(e) /\ (e.hasMaxSpeed => e.elapsed = Q(0))
               => e.position = Sum(e.start, Scaled(e.velocity, e.elapsed)))
  /\ [][\A dt \in DeltaTimes :
          IsCall("movementUpdate") /\ last'.arg.val = dt =>
            \A i \in 1..Len(world) :
              LET e == world[i]
                  f == world'[i]
              IN IF Moving(e)
                 THEN /\ f.position = Sum(e.position, Scaled(e.velocity, dt))
                      /\ f.hasTransform /\ f.hasVelocity
                      /\ f.velocity # e.velocity =>
                           /\ e.hasMaxSpeed
                           /\ SpeedSquared(f.velocity)
                                = Times(e.maxSpeed, e.maxSpeed)
                 ELSE /\ f.position = e.position /\ f.velocity = e.velocity
                      /\ f.hasTransform = e.hasTransform
                      /\ f.hasVelocity = e.hasVelocity]_vars

\* Two updates with deltaTime 1 have moved the entity that began at (0, 0)
\* with velocity (10, 5) to (20, 10); the other entity, at velocity (6, 8)
\* with maxSpeed 5, went (6, 8) in the first and (3, 4) in the second.
C31_Witness ==
  /\ last.op = "movementUpdate"
  /\ ncalls = 2
  /\ world[2].elapsed = Q(2)
  /\ world[2].velocity = At(10, 5)
  /\ world[2].position = At(20, 10)
  /\ world[1].hasMaxSpeed
  /\ world[1].position = At(9, 12)
  /\ world[1].velocity = At(3, 4)

\* ------------------------------------------------------- the engine, fairly
\* An engine whose timer fires as long as its interval is live, whose
\* systems' updates return and whose listeners return.  The host makes at
\* most MaxLiveCalls - 1 calls, so that a run can always afford one more
\* firing of the timer.
LiveTimer ==
  Budget(MaxLiveCalls) /\ TimerFires /\ UNCHANGED <<collisionVars, serverVars>>

LiveTick ==
  /\ CallUpdate \/ UpdateReturns \/ Advance \/ TickReturns
  /\ UNCHANGED <<ncalls, collisionVars, serverVars>>

LiveReturn == Return /\ UNCHANGED <<ncalls, engineVars, collisionVars, serverVars>>

LiveNext ==
  \/ /\ Budget(MaxLiveCalls - 1) /\ CanCall /\ \E s \in Systems : AddSystem(s)
     /\ UNCHANGED <<collisionVars, serverVars>>
  \/ /\ Budget(MaxLiveCalls - 1) /\ CanCall /\ Start
     /\ UNCHANGED <<collisionVars, serverVars>>
  \/ /\ Budget(MaxLiveCalls - 1) /\ CanCall /\ Stop
     /\ UNCHANGED <<collisionVars, serverVars>>
  \/ /\ Budget(MaxLiveCalls - 1) /\ CanCall /\ Pause
     /\ UNCHANGED <<collisionVars, serverVars>>
  \/ /\ Budget(MaxLiveCalls - 1) /\ CanCall /\ ResumeEngine
     /\ UNCHANGED <<collisionVars, serverVars>>
  \/ /\ Budget(MaxLiveCalls - 1) /\ CanCall /\ OnAll("f")
     /\ UNCHANGED <<engineVars, collisionVars, serverVars>>
  \/ LiveTimer
  \/ LiveTick
  \/ LiveReturn

LiveSpec ==
  /\ BusInit
  /\ [][LiveNext]_vars
  /\ WF_vars(LiveTimer)
  /\ WF_vars(LiveTick)
  /\ WF_vars(LiveReturn)

\* ------------------------------------------------ claims on the fair engine
\* A tick has just gone through all systems of its array and ended.
Ticked == last.op = "ticked" /\ tick.log = Expected(tick.arr)

\* C33: an engine that is running and not paused, in a run that can afford
\* another firing of the timer, goes on to the end of a tick that has
\* updated every system of its array, unless it is stopped or paused
\* before; stop() leaves isRunning false, and isRunning stays false until
\* start() is called.
C33_RunningEngineTicks ==
  /\ (isRunning /\ ~isPaused /\ ncalls < MaxLiveCalls)
       ~> (Ticked \/ ~isRunning \/ isPaused)
  /\ [][/\ IsCall("stop") => ~isRunning'
        /\ ~isRunning /\ isRunning' => IsCall("start")]_vars

\* A running engine with a system has ended a tick that updated it, after
\* time has passed.
C33_Witness ==
  /\ Ticked
  /\ isRunning /\ ~isPaused
  /\ tick.arr # <<>>
  /\ tick.arr = systems
  /\ deltaTime > 0

====
